---- MODULE Spec2Model ----
(***************************************************************************)
(* Verification model of cv_craft: the HTML round-trip core (template      *)
(* filler, field extractor, field updater) of app.py and cv_generator.py.  *)
(*                                                                         *)
(* A document is a sequence of tokens.  A token is one HTML tag (written   *)
(* as the tag's text) or one character of text.  The regular expressions   *)
(* and substring searches of the source only ever start and stop at tag    *)
(* boundaries, so on token sequences they are computed exactly as the      *)
(* source computes them on characters.  Positions are 1-based token        *)
(* indices; the source's "not found" (-1) is the index 0.                  *)
(***************************************************************************)
EXTENDS Integers, Sequences, FiniteSets, TLC

VARIABLES
    html,           \* app.py: the document the editor works on (current_html)
    last,           \* the last editor call: its arguments and what it returned
    work_exps,      \* cv_generator.py: experiences["work_experiences"]
    rendered,       \* the last rendering call and the blocks it produced
    template_html,  \* cv_generator.py: fill_template_with_experiences' template
    experiences,    \* cv_generator.py: fill_template_with_experiences' record
    filled,         \* the last fill_template_with_experiences call's result
    applications,   \* data_manager.py: data["applications"], most recent first
    session_state,  \* app.py: st.session_state of the generator page
    ids_issued,     \* how many application ids uuid4 has handed out
    clock,          \* the time datetime.now() reads next
    last_save,      \* the last save_or_update_draft call and what it did
    templates_data  \* data_manager.py: the contents of templates.json

vars == <<html, last, work_exps, rendered, template_html, experiences, filled,
          applications, session_state, ids_issued, clock, last_save,
          templates_data>>
editVars   == <<html, last>>
renderVars == <<work_exps, rendered>>
fillVars   == <<template_html, experiences, filled>>
appVars    == <<applications, session_state, ids_issued, clock, last_save,
               templates_data>>

\* -------------------------------------------------------------------------
\* Bounds of the model
\* -------------------------------------------------------------------------
MaxBlocks == 2      \* blocks in a generated document body
MaxBullets == 1     \* bullets in a list handed to the updater
MaxIndex == 2       \* exp_index ranges over -MaxIndex-1 .. MaxIndex

\* -------------------------------------------------------------------------
\* Tokens
\* -------------------------------------------------------------------------
SEC_EXP  == "<section id=\"experience\">"
SEC_SUM  == "<section id=\"summary\">"
SEC_C    == "</section>"
ART_E    == "<article class=\"entry\">"
ART_G    == "<article>"
ART_C    == "</article>"
ART_CU   == "</ARTICLE>"
DIV_R    == "<div class=\"role-entry\">"
DIV_O    == "<div>"
DIV_C    == "</div>"
UL_O     == "<ul>"
UL_A     == "<ul class=\"tools\">"
UL_C     == "</ul>"
LI_O     == "<li>"
LI_C     == "</li>"
B_O      == "<b>"
B_C      == "</b>"
P_SUM    == "<p class=\"summary\">"
P_O      == "<p>"
P_C      == "</p>"
WS       == "\n "           \* a run of whitespace (newline and indentation)
NL       == "\n"
SP       == " "
W8       == "\n        "
W12      == "\n            "
W16      == "\n                "
W20      == "\n                    "
W24      == "\n                        "
Whitespace == {WS, NL, SP, W8, W12, W16, W20, W24}
BS       == "\\"            \* one backslash character
DOLLAR   == "$"
DASH     == " - "
SPAN_C   == "</span>"
DIV_EH   == "<div class=\"entry-header\">"
SPAN_ET  == "<span class=\"entry-title\">"
SPAN_ED  == "<span class=\"entry-date\">"
SPAN_ES  == "<span class=\"entry-subtitle\">"
SPAN_EL  == "<span class=\"entry-location\">"
DIV_CG   == "<div class=\"company-group\">"
DIV_CH   == "<div class=\"company-header\">"
DIV_CL   == "<div class=\"company-location\">"
SPAN_CN  == "<span class=\"company-name\">"
SPAN_CT  == "<span class=\"company-tenure\">"
DIV_RH   == "<div class=\"role-header\">"
SPAN_RT  == "<span class=\"role-title\">"
SPAN_RD  == "<span class=\"role-date\">"

H3_O     == "<h3>"
H3_C     == "</h3>"
STRONG_O == "<strong>"
STRONG_C == "</strong>"
EM_O     == "<em>"
EM_C     == "</em>"
SPAN_CO  == "<span class=\"company\">"
DIV_SUM  == "<div class=\"summary\">"
SEC_SUMC == "<section class=\"summary\">"

TagTokens ==
    {DIV_SUM, SEC_SUMC, SEC_EXP, SEC_SUM, SEC_C, ART_E, ART_G, ART_C, ART_CU, DIV_R, DIV_O, DIV_C,
     UL_O, UL_A, UL_C, LI_O, LI_C, B_O, B_C, P_SUM, P_O, P_C,
     SPAN_C, DIV_EH, SPAN_ET, SPAN_ED, SPAN_ES, SPAN_EL, DIV_CG, DIV_CH, DIV_CL,
     SPAN_CN, SPAN_CT, DIV_RH, SPAN_RT, SPAN_RD,
     H3_O, H3_C, STRONG_O, STRONG_C, EM_O, EM_C, SPAN_CO}

\* str.lower() of one token (re.IGNORECASE compares the same way)
Lower(tok) ==
    CASE tok = ART_CU  -> ART_C
      [] tok = "Acme"  -> "acme"
      [] tok = "ACME"  -> "acme"
      [] tok = "Globex" -> "globex"
      [] OTHER -> tok

\* -------------------------------------------------------------------------
\* Sequence helpers (Python slicing and searching)
\* -------------------------------------------------------------------------
Min(S) == CHOOSE x \in S : \A y \in S : x <= y

\* s[a:b] of Python with a, b given as 1-based first and last index
Slice(s, a, b) == IF a > b THEN <<>> ELSE SubSeq(s, a, b)

\* str.find / re.search of a tag: least k >= pos with s[k] one of Tags, else 0
Find(s, Tags, pos) ==
    LET ks == {k \in pos..Len(s) : s[k] \in Tags}
    IN IF ks = {} THEN 0 ELSE Min(ks)

\* the same search after lower-casing (html.lower().find, re.IGNORECASE)
FindI(s, Tags, pos) ==
    LET ks == {k \in pos..Len(s) : Lower(s[k]) \in Tags}
    IN IF ks = {} THEN 0 ELSE Min(ks)

RECURSIVE Concat(_)
Concat(ss) == IF ss = <<>> THEN <<>> ELSE Head(ss) \o Concat(Tail(ss))

\* sep.join(parts)
RECURSIVE Join(_, _)
Join(sep, parts) ==
    IF parts = <<>> THEN <<>>
    ELSE IF Len(parts) = 1 THEN parts[1]
    ELSE parts[1] \o sep \o Join(sep, Tail(parts))

\* str.strip(): whitespace removed at both ends
RECURSIVE LStrip(_)
LStrip(s) == IF s # <<>> /\ Head(s) \in Whitespace THEN LStrip(Tail(s)) ELSE s
RECURSIVE RStrip(_)
RStrip(s) ==
    IF s # <<>> /\ s[Len(s)] \in Whitespace THEN RStrip(SubSeq(s, 1, Len(s) - 1)) ELSE s
Strip(s) == RStrip(LStrip(s))

\* re.sub(r'<[^>]+>', '', s): every tag removed
RECURSIVE StripTags(_)
StripTags(s) ==
    IF s = <<>> THEN <<>>
    ELSE (IF Head(s) \in TagTokens THEN <<>> ELSE <<Head(s)>>) \o StripTags(Tail(s))

\* re.findall(r'OPEN(.*?)CLOSE', s, DOTALL | IGNORECASE): the lazy matches from
\* left to right, each as the indices of its opening and closing tag
RECURSIVE FindAllLazy(_, _, _, _)
FindAllLazy(s, pos, Opens, Closes) ==
    LET o == FindI(s, Opens, pos)
        c == IF o = 0 THEN 0 ELSE FindI(s, Closes, o + 1)
    IN IF o = 0 \/ c = 0 THEN <<>>
       ELSE <<[open |-> o, close |-> c]>> \o FindAllLazy(s, c + 1, Opens, Closes)

\* -------------------------------------------------------------------------
\* app.py: field extractor
\* -------------------------------------------------------------------------
ArticleOpenTags == {ART_E, ART_G}       \* tags holding the text '<article'
DivOpenTags     == {DIV_R, DIV_O, DIV_EH, DIV_CG, DIV_CH, DIV_CL, DIV_RH, DIV_SUM}
                                        \* tags holding the text '<div'
UlOpenTags      == {UL_O, UL_A}         \* tags holding the text '<ul'

\* re.search(r'(<section[^>]*id="experience"[^>]*>)(.*?)(</section>)', html)
ExpSectionMatch(doc) ==
    LET o == FindI(doc, {SEC_EXP}, 1)
        c == IF o = 0 THEN 0 ELSE FindI(doc, {SEC_C}, o + 1)
    IN [found |-> (o # 0 /\ c # 0), open |-> o, close |-> c]

\* search_html = exp_section_match.group(...) if exp_section_match else html
SearchHtml(doc) ==
    LET m == ExpSectionMatch(doc)
    IN IF m.found THEN Slice(doc, m.open + 1, m.close - 1) ELSE doc

\* bullets = re.findall(r'<li[^>]*>(.*?)</li>', match); then
\* [re.sub(r'<[^>]+>', '', b).strip() for b in bullets if b.strip()]
LiBullets(match) ==
    LET ms   == FindAllLazy(match, 1, {LI_O}, {LI_C})
        raw  == [k \in 1..Len(ms) |-> Slice(match, ms[k].open + 1, ms[k].close - 1)]
        kept == SelectSeq(raw, LAMBDA b : Strip(b) # <<>>)
    IN [k \in 1..Len(kept) |-> Strip(StripTags(kept[k]))]

\* re.search(r'OPEN(.*?)CLOSE', s, IGNORECASE | DOTALL) and, when it matches,
\* re.sub(r'<[^>]+>', '', m.group(1)).strip()
ElementText(s, Opens, Closes) ==
    LET o == FindI(s, Opens, 1)
        c == IF o = 0 THEN 0 ELSE FindI(s, Closes, o + 1)
    IN [found |-> (o # 0 /\ c # 0),
        text  |-> IF o # 0 /\ c # 0
                  THEN Strip(StripTags(Slice(s, o + 1, c - 1))) ELSE <<>>]

\* for tp in patterns: if re.search(tp, match): text = ...; break
RECURSIVE FirstElementText(_, _, _)
FirstElementText(s, patterns, k) ==
    IF k > Len(patterns) THEN <<>>
    ELSE IF ElementText(s, patterns[k].open, patterns[k].close).found
         THEN ElementText(s, patterns[k].open, patterns[k].close).text
         ELSE FirstElementText(s, patterns, k + 1)

\* the title patterns tried in the opposite order
TitlePatternsStrongFirst ==
    << [open |-> {STRONG_O}, close |-> {STRONG_C}],
       [open |-> {H3_O},     close |-> {H3_C}],
       [open |-> {SPAN_ET},  close |-> {SPAN_C}] >>

title_patterns ==
    << [open |-> {SPAN_ET},  close |-> {SPAN_C}],
       [open |-> {H3_O},     close |-> {H3_C}],
       [open |-> {STRONG_O}, close |-> {STRONG_C}] >>

company_patterns ==
    << [open |-> {SPAN_ES}, close |-> {SPAN_C}],
       [open |-> {SPAN_CO}, close |-> {SPAN_C}],
       [open |-> {EM_O},    close |-> {EM_C}] >>

\* f"Entry {entry_index+1}", f"Role {entry_index+1}"
Numbered(word, entry_index) == <<word \o ToString(entry_index + 1)>>

\* Strategy 1: the title of a flat entry
ArticleTitle(match, entry_index) ==
    LET title == FirstElementText(match, title_patterns, 1)
    IN IF title = <<>> THEN Numbered("Entry ", entry_index) ELSE title

\* Strategy 1: the company of a flat entry
ArticleCompany(match) == FirstElementText(match, company_patterns, 1)

\* Strategy 2: the title of a role entry
RoleTitle(role_html, entry_index) ==
    LET title == ElementText(role_html, {SPAN_RT}, {SPAN_C}).text
    IN IF title = <<>> THEN Numbered("Role ", entry_index) ELSE title

\* a lookup that takes the first company-name element of the text
FirstCompanyName(text_before) ==
    ElementText(text_before, {SPAN_CN}, {SPAN_C}).text

\* Strategy 2: the company of a role entry, from the text before its opening
\* tag: all_companies[-1] of the finditer over text_before
LastCompanyName(text_before) ==
    LET all_companies == FindAllLazy(text_before, 1, {SPAN_CN}, {SPAN_C})
        n == Len(all_companies)
    IN IF n = 0 THEN <<>>
       ELSE Strip(StripTags(Slice(text_before, all_companies[n].open + 1,
                                  all_companies[n].close - 1)))

\* tokens holding a newline, which '.' does not match without re.DOTALL
Newlines == Whitespace \ {SP}

\* Strategy 3: re.search(r'<(?:h3|strong|b)[^>]*>(.*?)</(?:h3|strong|b)>', match,
\* re.IGNORECASE): the first opening tag that a closing tag follows on the
\* same line, up to the first such closing tag
GenericTitle(match, entry_index) ==
    LET Closes(o) == {c \in (o + 1)..Len(match) :
                        /\ Lower(match[c]) \in {H3_C, STRONG_C, B_C}
                        /\ \A j \in (o + 1)..(c - 1) : match[j] \notin Newlines}
        opens == {o \in 1..Len(match) :
                    Lower(match[o]) \in {H3_O, STRONG_O, B_O} /\ Closes(o) # {}}
    IN IF opens = {} THEN Numbered("Entry ", entry_index)
       ELSE Strip(StripTags(Slice(match, Min(opens) + 1, Min(Closes(Min(opens))) - 1)))

\* a loop body that appends the entry whether it has bullets or not
AppendAlways(acc, raw_html, type, title, company) ==
    [experiences |-> Append(acc.experiences,
                       [index |-> acc.entry_index, title |-> title,
                        company |-> company, bullets |-> LiBullets(raw_html),
                        raw_html |-> raw_html, type |-> type]),
     entry_index |-> acc.entry_index + 1]

\* a loop body that counts every block it looks at, appended or not
AppendCountingAll(acc, raw_html, type, title, company) ==
    LET bullets == LiBullets(raw_html)
    IN [experiences |-> IF bullets # <<>>
                        THEN Append(acc.experiences,
                                [index |-> acc.entry_index, title |-> title,
                                 company |-> company, bullets |-> bullets,
                                 raw_html |-> raw_html, type |-> type])
                        ELSE acc.experiences,
        entry_index |-> acc.entry_index + 1]

\* the loop body shared by the strategies: append the entry when it has bullets
AppendIfBullets(acc, raw_html, type, title, company) ==
    LET bullets == LiBullets(raw_html)
    IN IF bullets # <<>>
       THEN [experiences |-> Append(acc.experiences,
                                [index |-> acc.entry_index, title |-> title,
                                 company |-> company, bullets |-> bullets,
                                 raw_html |-> raw_html, type |-> type]),
             entry_index |-> acc.entry_index + 1]
       ELSE acc

\* Strategy 1 (generic = FALSE) and Strategy 3 (generic = TRUE):
\* for match in re.findall(article_pattern, search_html)
RECURSIVE CollectArticles(_, _, _, _, _)
CollectArticles(search_html, ms, k, acc, generic) ==
    IF k > Len(ms) THEN acc
    ELSE LET match == Slice(search_html, ms[k].open + 1, ms[k].close - 1)
         IN CollectArticles(search_html, ms, k + 1,
               AppendIfBullets(acc, match, "article",
                  IF generic THEN GenericTitle(match, acc.entry_index)
                             ELSE ArticleTitle(match, acc.entry_index),
                  IF generic THEN <<>> ELSE ArticleCompany(match)),
               generic)

\* Strategy 2's own scan for the closing </div>: str.find without lower()
RECURSIVE RoleEnd(_, _, _)
RoleEnd(search_html, pos, div_count) ==
    IF ~(div_count > 0 /\ pos <= Len(search_html)) THEN 0
    ELSE LET next_open  == Find(search_html, DivOpenTags, pos)
             next_close == Find(search_html, {DIV_C}, pos)
         IN IF next_close = 0 THEN 0
            ELSE IF next_open # 0 /\ next_open < next_close
                 THEN RoleEnd(search_html, next_open + 1, div_count + 1)
            ELSE IF div_count - 1 = 0 THEN next_close
            ELSE RoleEnd(search_html, next_close + 1, div_count - 1)

\* Strategy 2: for role_match in re.finditer(role_pattern, search_html)
RECURSIVE CollectRoles(_, _, _)
CollectRoles(search_html, pos, acc) ==
    LET m == FindI(search_html, {DIV_R}, pos)
    IN IF m = 0 THEN acc
       ELSE LET role_end == RoleEnd(search_html, m + 1, 1)
            IN CollectRoles(search_html, m + 1,
                  IF role_end # 0
                  THEN AppendIfBullets(acc, Slice(search_html, m + 1, role_end - 1),
                          "role-entry",
                          RoleTitle(Slice(search_html, m + 1, role_end - 1),
                                    acc.entry_index),
                          LastCompanyName(Slice(search_html, 1, m - 1)))
                  ELSE acc)

\* experiences = [] and entry_index = 0
NoExperiences == [experiences |-> <<>>, entry_index |-> 0]

\* Strategy 1 on the text searched
FlatStrategy(search_html) ==
    CollectArticles(search_html, FindAllLazy(search_html, 1, {ART_E}, {ART_C}), 1,
                    NoExperiences, FALSE)

\* Strategy 3 after the others, whatever they found
GenericStrategy(search_html, ab) ==
    CollectArticles(search_html,
                    FindAllLazy(search_html, 1, ArticleOpenTags, {ART_C}), 1, ab, TRUE)

\* if not experiences: Strategy 3
GenericIfNone(search_html, ab) ==
    IF ab.experiences = <<>> THEN GenericStrategy(search_html, ab) ELSE ab

\* an extractor that runs the generic strategy whatever the others found
ExtractAllStrategies(doc) ==
    GenericStrategy(SearchHtml(doc),
        CollectRoles(SearchHtml(doc), 1, FlatStrategy(SearchHtml(doc)))).experiences

extract_experiences_from_html(doc) ==
    GenericIfNone(SearchHtml(doc),
        CollectRoles(SearchHtml(doc), 1, FlatStrategy(SearchHtml(doc)))).experiences

\* -------------------------------------------------------------------------
\* app.py: field updater
\* -------------------------------------------------------------------------
\* Characters of text.  Of these, re knows "\n" as an escape; a backslash
\* before any other ASCII letter is "bad escape", before a digit a group
\* reference.
EscapeLetters == {"n"}
Letters       == {"x", "y", "z", "q", "k", "d", "n"}
Digits        == {"1"}

\* re's expansion of a replacement template for a pattern without groups
\* (sre_parse.parse_template): ok = FALSE is re.error
RECURSIVE ExpandTemplate(_)
ExpandTemplate(t) ==
    IF t = <<>> THEN [ok |-> TRUE, text |-> <<>>]
    ELSE IF Head(t) # BS
    THEN LET r == ExpandTemplate(Tail(t))
         IN [ok |-> r.ok, text |-> <<Head(t)>> \o r.text]
    ELSE IF Len(t) = 1 THEN [ok |-> FALSE, text |-> <<>>]
    ELSE LET c == t[2]
             r == ExpandTemplate(SubSeq(t, 3, Len(t)))
         IN IF c = BS THEN [ok |-> r.ok, text |-> <<BS>> \o r.text]
            ELSE IF c \in EscapeLetters THEN [ok |-> r.ok, text |-> <<WS>> \o r.text]
            ELSE IF c \in Letters \cup Digits THEN [ok |-> FALSE, text |-> <<>>]
            ELSE [ok |-> r.ok, text |-> <<BS, c>> \o r.text]

OpenTagsOf(tag_name)  == IF tag_name = "article" THEN ArticleOpenTags ELSE DivOpenTags
CloseTagsOf(tag_name) == IF tag_name = "article" THEN {ART_C} ELSE {DIV_C}

\* a matcher that takes no account of nesting: the first closing tag from pos
MatchLoopNoNesting(doc, pos, count, tag_name) ==
    FindI(doc, CloseTagsOf(tag_name), pos)

RECURSIVE MatchLoop(_, _, _, _)
MatchLoop(doc, pos, count, tag_name) ==
    IF ~(count > 0 /\ pos <= Len(doc)) THEN 0
    ELSE LET next_open  == FindI(doc, OpenTagsOf(tag_name), pos)
             next_close == FindI(doc, CloseTagsOf(tag_name), pos)
         IN IF next_close = 0 THEN 0
            ELSE IF next_open # 0 /\ next_open < next_close
                 THEN MatchLoop(doc, next_open + 1, count + 1, tag_name)
            ELSE IF count - 1 = 0 THEN next_close
            ELSE MatchLoop(doc, next_close + 1, count - 1, tag_name)

\* a matcher that takes the end of the document for the close it did not find
MatchOrEnd(doc, start_pos, tag_name) ==
    LET r == MatchLoop(doc, start_pos, 1, tag_name)
    IN IF r = 0 THEN Len(doc) ELSE r

find_matching_close_tag(doc, start_pos, tag_name) ==
    MatchLoop(doc, start_pos, 1, tag_name)

\* for m in re.finditer(opening, search_html): the candidate blocks of one tag
\* that close and contain '<ul', in order of occurrence
RECURSIVE CandidateEntries(_, _, _, _, _)
CandidateEntries(search_html, pos, Opening, tag_name, type) ==
    LET m == FindI(search_html, Opening, pos)
    IN IF m = 0 THEN <<>>
       ELSE LET close_pos == find_matching_close_tag(search_html, m + 1, tag_name)
                content   == Slice(search_html, m + 1, close_pos - 1)
                here == IF close_pos # 0
                           /\ \E k \in 1..Len(content) : Lower(content[k]) \in UlOpenTags
                        THEN <<[type |-> type, start |-> m, content_start |-> m + 1,
                                content_end |-> close_pos, end |-> close_pos + 1,
                                opening_tag |-> <<search_html[m]>>,
                                content |-> content]>>
                        ELSE <<>>
            IN here \o CandidateEntries(search_html, m + 1, Opening, tag_name, type)

\* all_entries.sort(key=lambda x: x["start"])
SortByStart(entries) ==
    [k \in 1..Len(entries) |->
        entries[CHOOSE j \in 1..Len(entries) :
                  Cardinality({i \in 1..Len(entries) :
                                 entries[i].start < entries[j].start}) = k - 1]]

AllEntries(search_html) ==
    SortByStart(CandidateEntries(search_html, 1, {ART_E}, "article", "article")
                \o CandidateEntries(search_html, 1, {DIV_R}, "div", "role-entry"))

\* re.sub(r'<ul[^>]*>.*?</ul>', repl, entry_content): every list replaced
RECURSIVE SubAllUl(_, _)
SubAllUl(content, repl) ==
    LET o == FindI(content, UlOpenTags, 1)
        c == IF o = 0 THEN 0 ELSE FindI(content, {UL_C}, o + 1)
    IN IF o = 0 \/ c = 0 THEN content
       ELSE Slice(content, 1, o - 1) \o repl
            \o SubAllUl(Slice(content, c + 1, Len(content)), repl)

\* '\n   '.join([f'<li>{bullet}</li>' for bullet in new_bullets if bullet.strip()])
NewUlContent(new_bullets) ==
    LET kept == SelectSeq(new_bullets, LAMBDA b : Strip(b) # <<>>)
    IN Join(<<WS>>, [k \in 1..Len(kept) |-> <<LI_O>> \o kept[k] \o <<LI_C>>])

Returned(doc) == [raised |-> FALSE, error |-> "", html |-> doc]
Raised(error) == [raised |-> TRUE, error |-> error, html |-> <<>>]

update_experience_bullets_in_html(doc, exp_index, new_bullets) ==
    LET m           == ExpSectionMatch(doc)
        prefix      == IF m.found THEN Slice(doc, 1, m.open) ELSE <<>>
        search_html == SearchHtml(doc)
        suffix      == IF m.found THEN Slice(doc, m.close, Len(doc)) ELSE <<>>
        all_entries == AllEntries(search_html)
        n           == Len(all_entries)
    IN IF ~(exp_index < n) THEN Returned(prefix \o search_html \o suffix)
       ELSE IF exp_index < -n THEN Raised("IndexError")
       ELSE LET entry == all_entries[(IF exp_index < 0 THEN n + exp_index
                                                        ELSE exp_index) + 1]
                repl  == ExpandTemplate(<<UL_O, WS>> \o NewUlContent(new_bullets)
                                        \o <<WS, UL_C>>)
                close_tag == IF entry.type = "article" THEN ART_C ELSE DIV_C
            IN IF ~repl.ok THEN Raised("re.error")
               ELSE Returned(prefix
                             \o Slice(search_html, 1, entry.start - 1)
                             \o entry.opening_tag
                             \o SubAllUl(entry.content, repl.text)
                             \o <<close_tag>>
                             \o Slice(search_html, entry.end, Len(search_html))
                             \o suffix)

\* one extraction pattern section .*? open (.*?) close: the indices of the tag
\* whose text is captured and of its closing tag; section = {} when the
\* pattern names no section
CaptureMatch(doc, pat) ==
    LET s == IF pat.section = {} THEN 1 ELSE FindI(doc, pat.section, 1)
        p == IF s = 0 THEN 0
             ELSE FindI(doc, pat.open, IF pat.section = {} THEN 1 ELSE s + 1)
        c == IF p = 0 THEN 0 ELSE FindI(doc, pat.close, p + 1)
    IN [found |-> (p # 0 /\ c # 0), open |-> p, close |-> c]

ExtractPatterns ==
    << [section |-> {SEC_SUM},  open |-> {P_SUM},       close |-> {P_C}],
       [section |-> {SEC_SUM},  open |-> {P_SUM, P_O},  close |-> {P_C}],
       [section |-> {},         open |-> {P_SUM},       close |-> {P_C}],
       [section |-> {},         open |-> {DIV_SUM},     close |-> {DIV_C}],
       [section |-> {SEC_SUMC}, open |-> {P_SUM, P_O},  close |-> {P_C}] >>

\* the match of the first extraction pattern that matches, from pattern k on
RECURSIVE LocateSummaryFrom(_, _)
LocateSummaryFrom(doc, k) ==
    IF k > Len(ExtractPatterns) THEN [found |-> FALSE, open |-> 0, close |-> 0]
    ELSE IF CaptureMatch(doc, ExtractPatterns[k]).found
         THEN CaptureMatch(doc, ExtractPatterns[k])
         ELSE LocateSummaryFrom(doc, k + 1)

\* text = re.sub(r'<[^>]+>', '', match.group(1)); return text.strip()
extract_summary_from_html(doc) ==
    LET m == LocateSummaryFrom(doc, 1)
    IN IF m.found THEN Strip(StripTags(Slice(doc, m.open + 1, m.close - 1))) ELSE <<>>

\* escaped_summary = new_summary.replace('\\', '\\\\').replace('$', '\\$')
RECURSIVE EscapeSummary(_)
EscapeSummary(t) ==
    IF t = <<>> THEN <<>>
    ELSE (IF Head(t) = BS THEN <<BS, BS>>
          ELSE IF Head(t) = DOLLAR THEN <<BS, DOLLAR>>
          ELSE <<Head(t)>>) \o EscapeSummary(Tail(t))

\* one update pattern (opening)(.*?)(</p>): the indices of the <p> whose text is
\* captured and of its </p>; Section = {} when the pattern names no section
SummaryMatch(doc, Section, Paragraph) ==
    LET s == IF Section = {} THEN 1 ELSE FindI(doc, Section, 1)
        p == IF s = 0 THEN 0
             ELSE FindI(doc, Paragraph, IF Section = {} THEN 1 ELSE s + 1)
        c == IF p = 0 THEN 0 ELSE FindI(doc, {P_C}, p + 1)
    IN [found |-> (p # 0 /\ c # 0), open |-> p, close |-> c]

UpdatePatterns ==
    << [section |-> {SEC_SUM}, paragraph |-> {P_SUM}],
       [section |-> {SEC_SUM}, paragraph |-> {P_SUM, P_O}],
       [section |-> {},        paragraph |-> {P_SUM}] >>

\* an update whose replacement leaves out the closing tag (no \g<3>)
UpdateSummaryDroppingClose(doc, k, new_summary) ==
    LET ks == {j \in k..Len(UpdatePatterns) :
                 SummaryMatch(doc, UpdatePatterns[j].section,
                              UpdatePatterns[j].paragraph).found}
        m  == SummaryMatch(doc, UpdatePatterns[Min(ks)].section,
                           UpdatePatterns[Min(ks)].paragraph)
        repl == ExpandTemplate(EscapeSummary(new_summary))
    IN IF ks = {} THEN Returned(doc)
       ELSE IF ~repl.ok THEN Raised("re.error")
       ELSE Returned(Slice(doc, 1, m.open) \o repl.text
                     \o Slice(doc, m.close + 1, Len(doc)))

RECURSIVE UpdateSummaryFrom(_, _, _)
UpdateSummaryFrom(doc, k, new_summary) ==
    IF k > Len(UpdatePatterns) THEN Returned(doc)
    ELSE LET m == SummaryMatch(doc, UpdatePatterns[k].section,
                               UpdatePatterns[k].paragraph)
             repl == ExpandTemplate(EscapeSummary(new_summary))
         IN IF ~m.found THEN UpdateSummaryFrom(doc, k + 1, new_summary)
            ELSE IF ~repl.ok THEN Raised("re.error")
            ELSE Returned(Slice(doc, 1, m.open) \o repl.text
                          \o Slice(doc, m.close, Len(doc)))

update_summary_in_html(doc, new_summary) == UpdateSummaryFrom(doc, 1, new_summary)

\* -------------------------------------------------------------------------
\* Documents the editor is given (generated by the filler, returned by the
\* AI collaborator, or typed in raw-HTML mode)
\* -------------------------------------------------------------------------
BulletList(chars) == <<UL_O, LI_O>> \o chars \o <<LI_C, UL_C>>

FlatEntry      == <<ART_E>> \o BulletList(<<"x">>) \o <<ART_C>>
FlatEmptyList  == <<ART_E, UL_O, UL_C, ART_C>>
FlatNoList     == <<ART_E, "k", ART_C>>
FlatTwoLists   == <<ART_E>> \o BulletList(<<"x">>) \o <<"k", UL_A, LI_O, "y", LI_C, UL_C, ART_C>>
FlatBoldBullet == <<ART_E>> \o BulletList(<<B_O, "x", B_C>>) \o <<ART_C>>
FlatUpperClose == <<ART_E>> \o BulletList(<<"x">>) \o <<ART_CU>>
FlatNested     == <<ART_E, ART_G, "k", ART_C>> \o BulletList(<<"x">>) \o <<ART_C>>
FlatUnclosed   == <<ART_E>> \o BulletList(<<"x">>)
GenericArticle == <<ART_G>> \o BulletList(<<"z">>) \o <<ART_C>>
RoleEntry      == <<DIV_R, DIV_O, "k", DIV_C>> \o BulletList(<<"y">>) \o <<DIV_C>>

Blocks ==
    {FlatEntry, FlatEmptyList, FlatNoList, FlatTwoLists, FlatBoldBullet,
     FlatUpperClose, FlatNested, FlatUnclosed, GenericArticle, RoleEntry}

RECURSIVE Bodies(_)
Bodies(n) ==
    IF n = 0 THEN {<<>>}
    ELSE Bodies(n - 1) \cup {b \o blk : b \in Bodies(n - 1), blk \in Blocks}

SummarySection == <<SEC_SUM, P_SUM, "q", P_C, SEC_C>>

\* summaries in the other structures the extractor knows
PlainSummarySection == <<SEC_SUM, P_O, B_O, "q", B_C, P_C, SEC_C>>
DivSummary          == <<DIV_SUM, "q", DIV_C>>
ClassSummarySection == <<SEC_SUMC, P_O, "q", P_C, SEC_C>>

\* entries with the title and sub-label elements the extractor looks for
ScenarioEntry   == <<ART_E, SPAN_ET, "Engineer", SPAN_C>> \o BulletList(<<"Did X">>)
                   \o <<ART_C>>
H3Entry         == <<ART_E, H3_O, "Lead", H3_C, SPAN_CO, "Acme", SPAN_C>>
                   \o BulletList(<<"x">>) \o <<ART_C>>
StrongEntry     == <<ART_E, STRONG_O, "Chief", STRONG_C, EM_O, "Globex", EM_C>>
                   \o BulletList(<<"x">>) \o <<ART_C>>
LateSpanEntry   == <<ART_E, STRONG_O, "Chief", STRONG_C, H3_O, "Lead", H3_C,
                     SPAN_ET, "Engineer", SPAN_C, EM_O, "Globex", EM_C,
                     SPAN_CO, "Acme", SPAN_C, SPAN_ES, "Initech", SPAN_C>>
                   \o BulletList(<<"x">>) \o <<ART_C>>
EmptyTitleEntry == <<ART_E, SPAN_ET, SPAN_C, H3_O, "Lead", H3_C>>
                   \o BulletList(<<"x">>) \o <<ART_C>>
BoldBulletOnly  == <<ART_E, UL_O, LI_O, STRONG_O, "Led", STRONG_C, SP, EM_O, "x", EM_C,
                     LI_C, UL_C, ART_C>>
GenericTitled   == <<ART_G, B_O, "Head", B_C>> \o BulletList(<<"z">>) \o <<ART_C>>
GenericTwoLine  == <<ART_G, H3_O, WS, "Head", H3_C, STRONG_O, "Chief", STRONG_C>>
                   \o BulletList(<<"z">>) \o <<ART_C>>
GenericMixed    == <<ART_G, STRONG_O, "Head", H3_C>> \o BulletList(<<"z">>) \o <<ART_C>>
TitledRole      == <<DIV_R, DIV_RH, SPAN_RT, "Engineer", SPAN_C, DIV_C>>
                   \o BulletList(<<"y">>) \o <<DIV_C>>

TitledBlocks ==
    {ScenarioEntry, H3Entry, StrongEntry, LateSpanEntry, EmptyTitleEntry,
     BoldBulletOnly, GenericTitled, GenericTwoLine, GenericMixed, TitledRole}

\* one such entry, alone or after an entry that is reported or one that is not
TitledBodies == {pre \o blk : pre \in {<<>>, FlatEntry, FlatNoList}, blk \in TitledBlocks}

\* the roles of one company group: up to n role entries, titled or not
RECURSIVE RoleRuns(_)
RoleRuns(n) ==
    IF n = 0 THEN {<<>>}
    ELSE RoleRuns(n - 1)
         \cup {r \o role : r \in RoleRuns(n - 1), role \in {TitledRole, RoleEntry}}

\* <div class="company-header"> of the career progression template
CompanyHeader(company) == <<DIV_CH, SPAN_CN>> \o company \o <<SPAN_C, DIV_C>>

\* <div class="company-group"> of the career progression template
CompanyGroup(company, roles) ==
    <<DIV_CG>> \o CompanyHeader(company) \o roles \o <<DIV_C>>

\* grouped documents: possibly a role before any company group, then one or
\* two company groups; and documents whose experience section leaves a
\* company header outside
GroupedBodies ==
    {lead \o CompanyGroup(<<"Acme">>, first) \o second :
        lead \in {<<>>, TitledRole}, first \in RoleRuns(MaxBlocks),
        second \in {<<>>} \cup {CompanyGroup(<<B_O, "Globex", B_C, SP>>, r) :
                                   r \in RoleRuns(1) \ {<<>>}}}
    \cup {CompanyHeader(<<"Acme">>) \o <<SEC_EXP>> \o body \o <<SEC_C>> :
             body \in (RoleRuns(1) \ {<<>>})
                       \cup {CompanyGroup(<<"Globex">>, TitledRole)}}

Docs ==
    {head \o body : head \in {<<>>, SummarySection}, body \in Bodies(MaxBlocks)}
    \cup TitledBodies \cup GroupedBodies
    \cup {head \o <<SEC_EXP>> \o body \o <<SEC_C>> :
              head \in {<<>>, SummarySection}, body \in Bodies(MaxBlocks)}
    \cup {head \o body :
              head \in {PlainSummarySection, DivSummary, ClassSummarySection},
              body \in Bodies(1)}

\* texts typed into the editor's text areas
BulletTexts ==
    {<<"x">>, <<"z">>, <<WS>>, <<BS, "d">>, <<BS, BS>>, <<"x", UL_C>>}

SummaryTexts == {<<>>, <<"x">>, <<"x", DOLLAR>>, <<BS, "d">>}

RECURSIVE ListsUpTo(_)
ListsUpTo(n) ==
    IF n = 0 THEN {<<>>}
    ELSE ListsUpTo(n - 1) \cup {Append(l, b) : l \in ListsUpTo(n - 1), b \in BulletTexts}

\* bullet lists handed to the updater: typed ones, and lists read back from the
\* document by the extractor
BulletLists(doc) ==
    ListsUpTo(MaxBullets)
    \cup {extract_experiences_from_html(doc)[k].bullets :
             k \in 1..Len(extract_experiences_from_html(doc))}

Indices == (0 - MaxIndex - 1)..MaxIndex

\* -------------------------------------------------------------------------
\* The editor: one call of the extractor or of an updater on a document
\* -------------------------------------------------------------------------
NoCall ==
    [op |-> "none", exp_index |-> 0, new_bullets |-> <<>>, new_summary |-> <<>>,
     summary |-> <<>>,
     experiences |-> <<>>, result |-> Returned(<<>>)]

NoRender == [op |-> "none", experiences |-> <<>>, html |-> <<>>]
\* load_templates on a missing file; a default_id of 0 is None
NoTemplates == [templates |-> <<>>, default_id |-> 0]
NoSave   == [op |-> "none", existing_draft_id |-> 0, generated_html |-> <<>>,
             returned |-> 0, before |-> <<>>, after |-> <<>>]
\* the session as app.py initialises it; a current_draft_id of 0 is None
NewSession == [current_draft_id |-> 0, current_cv_html |-> <<>>,
               cv_job_company |-> <<>>, cv_compact_mode |-> "normal"]
NoFill   == [op |-> "none", compact_mode |-> "normal", show_page_preview |-> FALSE,
             html |-> <<>>]

EditorIdle   == html = <<>> /\ last = NoCall
RenderIdle   == work_exps = <<>> /\ rendered = NoRender
FillIdle     == template_html = <<>> /\ experiences = [summary |-> <<>>] /\ filled = NoFill
AppsIdle     == /\ applications = <<>> /\ session_state = NewSession
                /\ ids_issued = 0 /\ clock = 1 /\ last_save = NoSave
                /\ templates_data = NoTemplates

InitEdit == html \in Docs /\ last = NoCall /\ RenderIdle /\ FillIdle /\ AppsIdle

ExtractExperiences ==
    /\ last = NoCall
    /\ last' = [NoCall EXCEPT !.op = "extract",
                              !.experiences = extract_experiences_from_html(html)]
    /\ UNCHANGED <<html, renderVars, fillVars, appVars>>

UpdateBullets ==
    \E exp_index \in Indices, new_bullets \in BulletLists(html) :
        /\ last = NoCall
        /\ last' = [NoCall EXCEPT
                       !.op = "update_bullets", !.exp_index = exp_index,
                       !.new_bullets = new_bullets,
                       !.result = update_experience_bullets_in_html(html, exp_index,
                                                                    new_bullets)]
        /\ UNCHANGED <<html, renderVars, fillVars, appVars>>

UpdateSummary ==
    \E new_summary \in SummaryTexts :
        /\ last = NoCall
        /\ last' = [NoCall EXCEPT
                       !.op = "update_summary", !.new_summary = new_summary,
                       !.result = update_summary_in_html(html, new_summary)]
        /\ UNCHANGED <<html, renderVars, fillVars, appVars>>

ExtractSummary ==
    /\ last = NoCall
    /\ last' = [NoCall EXCEPT !.op = "extract_summary",
                              !.summary = extract_summary_from_html(html)]
    /\ UNCHANGED <<html, renderVars, fillVars, appVars>>

NextEdit == ExtractExperiences \/ UpdateBullets \/ UpdateSummary \/ ExtractSummary

SpecEdit == InitEdit /\ [][NextEdit]_vars

\* -------------------------------------------------------------------------
\* Claims about the editor (SpecEdit)
\* -------------------------------------------------------------------------
IsBulletUpdate == last.op = "update_bullets"

\* the entries the extractor reports for the document, and the candidate blocks
\* the updater numbers
Extracted  == extract_experiences_from_html(html)
Candidates == AllEntries(SearchHtml(html))

\* a document with the whitespace inside its list elements removed
RECURSIVE DropListWhitespace(_, _)
DropListWhitespace(doc, in_list) ==
    IF doc = <<>> THEN <<>>
    ELSE LET tok == Head(doc)
             inside == IF Lower(tok) \in UlOpenTags THEN TRUE
                       ELSE IF Lower(tok) = UL_C THEN FALSE ELSE in_list
         IN (IF in_list /\ tok \in Whitespace THEN <<>> ELSE <<tok>>)
            \o DropListWhitespace(Tail(doc), inside)

\* C1: index agreement - for an index valid in the extraction of the document,
\* the block the bullet update rewrites is the block extraction reported at
\* that index (same kind of block, same content).
C1_IndexAgreement ==
    (IsBulletUpdate /\ last.exp_index \in 0..(Len(Extracted) - 1)) =>
        /\ last.exp_index < Len(Candidates)
        /\ Candidates[last.exp_index + 1].type = Extracted[last.exp_index + 1].type
        /\ Candidates[last.exp_index + 1].content
              = Extracted[last.exp_index + 1].raw_html

\* C2: round-trip identity - writing back the bullets extraction reported at a
\* valid index returns the document itself, up to whitespace inside lists.
C2_RoundTripIdentity ==
    (/\ IsBulletUpdate
     /\ last.exp_index \in 0..(Len(Extracted) - 1)
     /\ last.new_bullets = Extracted[last.exp_index + 1].bullets) =>
        /\ ~last.result.raised
        /\ DropListWhitespace(last.result.html, FALSE) = DropListWhitespace(html, FALSE)

\* C3: out-of-range safety - an index that is no position among the discovered
\* entries (too large, or negative) returns the document unchanged.
C3_OutOfRangeSafety ==
    (IsBulletUpdate /\ (last.exp_index >= Len(Candidates) \/ last.exp_index < 0)) =>
        /\ ~last.result.raised
        /\ last.result.html = html

\* C4: frame of a bullet update - for a valid index, everything up to and
\* including the selected entry's opening tag, the entry's content before its
\* first list and after its last list, its closing tag and everything after it
\* are unchanged.
C4_UpdateFrame ==
    (/\ IsBulletUpdate
     /\ last.exp_index \in 0..(Len(Candidates) - 1)
     /\ ~last.result.raised) =>
        LET m      == ExpSectionMatch(html)
            offset == IF m.found THEN m.open ELSE 0
            entry  == Candidates[last.exp_index + 1]
            out    == last.result.html
            first_ul == FindI(entry.content, UlOpenTags, 1)
            closes == {k \in 1..Len(entry.content) : Lower(entry.content[k]) = UL_C}
            last_ul  == IF closes = {} THEN 0
                        ELSE CHOOSE k \in closes : \A j \in closes : j <= k
            head   == offset + entry.content_start + first_ul - 2
            tail   == Len(html) - (offset + entry.content_start + last_ul - 1)
        IN IF last_ul < first_ul THEN out = html
           ELSE /\ Len(out) >= head + tail
                /\ Slice(out, 1, head) = Slice(html, 1, head)
                /\ Slice(out, Len(out) - tail + 1, Len(out))
                      = Slice(html, Len(html) - tail + 1, Len(html))

\* C5: idempotence - applying the same bullet update to its own result returns
\* that result.
C5_UpdateIdempotent ==
    (IsBulletUpdate /\ ~last.result.raised) =>
        update_experience_bullets_in_html(last.result.html, last.exp_index,
                                          last.new_bullets) = last.result

\* C6: the field updaters never raise, whatever the document, index and text.
C6_UpdatersNeverRaise ==
    last.op \in {"update_bullets", "update_summary"} => ~last.result.raised

\* -------------------------------------------------------------------------
\* data_manager.py / cv_generator.py: work experiences and their rendering
\* -------------------------------------------------------------------------
MaxExps == 3        \* work experiences stored

Companies == {<<"Acme">>, <<"ACME", SP>>, <<"Globex">>}

\* datetime.now(): later than every stored timestamp
Now(exps) ==
    LET stamps == {exps[k].created_at : k \in 1..Len(exps)}
                  \cup {exps[k].updated_at :
                           k \in {j \in 1..Len(exps) : "updated_at" \in DOMAIN exps[j]}}
    IN IF stamps = {} THEN 1
       ELSE 1 + (CHOOSE t \in stamps : \A u \in stamps : u <= t)

\* the sort key (not x.get("is_current", False), x.get("created_at", "")),
\* compared as Python compares tuples (False < True)
KeyLess(a, b) ==
    \/ a.is_current /\ ~b.is_current
    \/ a.is_current = b.is_current /\ a.created_at < b.created_at

\* sorted(experiences, key=..., reverse=False): stable, ascending
Sorted(exps) ==
    [k \in 1..Len(exps) |->
        exps[CHOOSE j \in 1..Len(exps) :
               Cardinality({i \in 1..Len(exps) :
                              \/ KeyLess(exps[i], exps[j])
                              \/ ~KeyLess(exps[j], exps[i]) /\ i < j}) = k - 1]]

\* list(reversed(s))
Reversed(s) == [k \in 1..Len(s) |-> s[Len(s) + 1 - k]]

SortedExps(exps) == Reversed(Sorted(exps))

\* "".join(f"<li>{b}</li>" for b in exp.get("bullets", []))
RECURSIVE BulletItems(_)
BulletItems(bullets) ==
    IF bullets = <<>> THEN <<>>
    ELSE <<LI_O>> \o Head(bullets) \o <<LI_C>> \o BulletItems(Tail(bullets))

\* the f-string of one flat entry; in0, in1, in2 are its three indentations
EntryBlock(exp, in0, in1, in2) ==
    <<in0, ART_E, in1, DIV_EH,
      in2, SPAN_ET>> \o exp.role \o <<SPAN_C,
      in2, SPAN_ED>> \o exp.start_date \o <<DASH>> \o exp.end_date \o <<SPAN_C,
      in1, DIV_C, in1, DIV_EH,
      in2, SPAN_ES>> \o exp.company \o <<SPAN_C,
      in2, SPAN_EL>> \o exp.location \o <<SPAN_C,
      in1, DIV_C,
      in1, UL_O>> \o BulletItems(exp.bullets) \o <<UL_C, in0, ART_C, in0>>

format_experience_html(exps) ==
    IF exps = <<>> THEN <<>>
    ELSE LET sorted_exps == SortedExps(exps)
         IN Join(<<NL>>, [k \in 1..Len(sorted_exps) |->
                            EntryBlock(sorted_exps[k], W8, W12, W16)])

\* exp.get("company", "").strip().lower()
CompanyKey(exp) == LET c == Strip(exp.company) IN [k \in 1..Len(c) |-> Lower(c[k])]

\* the OrderedDict company_groups, as the sequence of its values in insertion order
RECURSIVE GroupByCompany(_, _)
GroupByCompany(sorted_exps, groups) ==
    IF sorted_exps = <<>> THEN groups
    ELSE LET exp  == Head(sorted_exps)
             here == {g \in 1..Len(groups) : groups[g].key = CompanyKey(exp)}
         IN GroupByCompany(Tail(sorted_exps),
               IF here = {}
               THEN Append(groups, [key |-> CompanyKey(exp), company |-> exp.company,
                                    location |-> exp.location, roles |-> <<exp>>])
               ELSE [g \in 1..Len(groups) |->
                       IF g \in here
                       THEN [groups[g] EXCEPT !.roles = Append(@, exp)]
                       ELSE groups[g]])

RoleBlock(exp) ==
    <<W16, DIV_R, W20, DIV_RH,
      W24, SPAN_RT>> \o exp.role \o <<SPAN_C,
      W24, SPAN_RD>> \o exp.start_date \o <<DASH>> \o exp.end_date \o <<SPAN_C,
      W20, DIV_C,
      W20, UL_O>> \o BulletItems(exp.bullets) \o <<UL_C, W16, DIV_C, W16>>

\* html_parts of one company group
GroupParts(group) ==
    LET roles == group.roles
        earliest_start == roles[Len(roles)].start_date
        latest_end     == roles[1].end_date
        tenure == IF earliest_start # <<>>
                  THEN earliest_start \o <<DASH>> \o latest_end ELSE <<>>
    IN IF Len(roles) = 1
       THEN <<EntryBlock(roles[1], W12, W16, W20)>>
       ELSE << <<W12, DIV_CG, W16, DIV_CH,
                 W20, SPAN_CN>> \o group.company \o <<SPAN_C,
                 W20, SPAN_CT>> \o tenure \o <<SPAN_C,
                 W16, DIV_C,
                 W16, DIV_CL>> \o group.location \o <<DIV_C, W12>> >>
            \o [k \in 1..Len(roles) |-> RoleBlock(roles[k])]
            \o << <<DIV_C>> >>

format_experience_grouped_html(exps) ==
    IF exps = <<>> THEN <<>>
    ELSE LET groups == GroupByCompany(SortedExps(exps), <<>>)
         IN Join(<<NL>>, Concat([g \in 1..Len(groups) |-> GroupParts(groups[g])]))

InitRender == work_exps = <<>> /\ rendered = NoRender /\ EditorIdle /\ FillIdle /\ AppsIdle

\* data_manager.add_work_experience
add_work_experience ==
    \E company \in Companies, is_current \in BOOLEAN :
        /\ Len(work_exps) < MaxExps
        /\ work_exps' = Append(work_exps,
              [role |-> <<"Role " \o ToString(Len(work_exps) + 1)>>,
               company |-> company, start_date |-> <<"2020">>,
               end_date |-> IF is_current THEN <<"Present">> ELSE <<"2021">>,
               location |-> <<"Berlin">>, bullets |-> << <<"x">> >>,
               is_current |-> is_current, created_at |-> Now(work_exps)])
        /\ UNCHANGED <<rendered, editVars, fillVars, appVars>>

FormatExperience ==
    /\ rendered' = [op |-> "flat", experiences |-> work_exps,
                    html |-> format_experience_html(work_exps)]
    /\ UNCHANGED <<work_exps, editVars, fillVars, appVars>>

FormatExperienceGrouped ==
    /\ rendered' = [op |-> "grouped", experiences |-> work_exps,
                    html |-> format_experience_grouped_html(work_exps)]
    /\ UNCHANGED <<work_exps, editVars, fillVars, appVars>>

NextRender == add_work_experience \/ FormatExperience \/ FormatExperienceGrouped

SpecRender == InitRender /\ [][NextRender]_vars

\* -------------------------------------------------------------------------
\* Claims about the rendering of work experiences (SpecRender)
\* -------------------------------------------------------------------------
IsRendering == rendered.op \in {"flat", "grouped"}

\* the role texts of the rendered experiences, in the order the HTML shows them
RenderedRoles ==
    SelectSeq(rendered.html,
              LAMBDA tok : \E k \in 1..Len(rendered.experiences) :
                              rendered.experiences[k].role = <<tok>>)

ExpOfRole(role) ==
    rendered.experiences[CHOOSE k \in 1..Len(rendered.experiences) :
                            rendered.experiences[k].role = <<role>>]

\* the documented order: current before not current, then most recently added first
ShownBefore(a, b) ==
    \/ a.is_current /\ ~b.is_current
    \/ a.is_current = b.is_current /\ a.created_at > b.created_at

CountOf(doc, Tags) == Cardinality({k \in 1..Len(doc) : doc[k] \in Tags})

\* C7: rendering order - in the rendered HTML every current experience comes
\* before every experience that is not current, and within each of the two
\* partitions the most recently added comes first.
C7_RenderingOrder ==
    IsRendering =>
        /\ Len(RenderedRoles) = Len(rendered.experiences)
        /\ \A p, q \in 1..Len(RenderedRoles) :
              p < q => ShownBefore(ExpOfRole(RenderedRoles[p]), ExpOfRole(RenderedRoles[q]))

\* one top-level block per distinct trimmed, lower-cased company
C8_OneBlockPerCompany ==
    CountOf(rendered.html, {ART_E, DIV_CG})
       = Cardinality({CompanyKey(rendered.experiences[k]) :
                         k \in 1..Len(rendered.experiences)})

\* every role is shown once, and the roles of one company are shown together
C8_EveryRoleInOneBlock ==
    /\ Len(RenderedRoles) = Len(rendered.experiences)
    /\ \A p, q, r \in 1..Len(RenderedRoles) :
          (p < q /\ q < r /\ CompanyKey(ExpOfRole(RenderedRoles[p]))
                               = CompanyKey(ExpOfRole(RenderedRoles[r])))
          => CompanyKey(ExpOfRole(RenderedRoles[q])) = CompanyKey(ExpOfRole(RenderedRoles[p]))

\* the first entry of a company in the documented order
FirstOfCompany(key) ==
    CHOOSE k \in 1..Len(rendered.experiences) :
        /\ CompanyKey(rendered.experiences[k]) = key
        /\ \A j \in 1..Len(rendered.experiences) :
              (j # k /\ CompanyKey(rendered.experiences[j]) = key)
              => ShownBefore(rendered.experiences[k], rendered.experiences[j])

\* blocks in the order of their companies' first entries; roles inside a block
\* current first, most recently added first
C8_BlockAndRoleOrder ==
    \A p, q \in 1..Len(RenderedRoles) :
        p < q =>
            LET a == ExpOfRole(RenderedRoles[p])
                b == ExpOfRole(RenderedRoles[q])
            IN IF CompanyKey(a) = CompanyKey(b) THEN ShownBefore(a, b)
               ELSE ShownBefore(rendered.experiences[FirstOfCompany(CompanyKey(a))],
                                rendered.experiences[FirstOfCompany(CompanyKey(b))])

\* C8: grouping correctness - grouped rendering emits exactly one top-level
\* block per distinct trimmed, case-insensitive company, in the order of each
\* company's first entry in the sorted list, every role in exactly one block,
\* and the roles of a multi-role block current first, most recently added first.
C8_GroupingCorrectness ==
    rendered.op = "grouped" =>
        /\ C8_OneBlockPerCompany
        /\ C8_EveryRoleInOneBlock
        /\ C8_BlockAndRoleOrder

\* -------------------------------------------------------------------------
\* cv_generator.py: templates and section formatting
\* -------------------------------------------------------------------------
T_NAME      == "{{CONTACT_NAME}}"
T_EMAIL     == "{{CONTACT_EMAIL}}"
T_PHONE     == "{{CONTACT_PHONE}}"
T_LOCATION  == "{{CONTACT_LOCATION}}"
T_LINKS     == "{{CONTACT_LINKS}}"
T_LINKEDIN  == "{{CONTACT_LINKEDIN}}"
T_GITHUB    == "{{CONTACT_GITHUB}}"
T_SUMMARY   == "{{SUMMARY}}"
T_EXPERIENCE == "{{EXPERIENCE}}"
T_EXPERIENCE_GROUPED == "{{EXPERIENCE_GROUPED}}"
T_EDUCATION == "{{EDUCATION}}"
T_SKILLS    == "{{SKILLS}}"
T_SKILLS_PILLS == "{{SKILLS_PILLS}}"
T_PROJECTS  == "{{PROJECTS}}"
T_CERTIFICATIONS == "{{CERTIFICATIONS}}"
T_AWARDS    == "{{AWARDS}}"

Vocabulary ==
    {T_NAME, T_EMAIL, T_PHONE, T_LOCATION, T_LINKS, T_LINKEDIN, T_GITHUB, T_SUMMARY,
     T_EXPERIENCE, T_EXPERIENCE_GROUPED, T_EDUCATION, T_SKILLS, T_SKILLS_PILLS,
     T_PROJECTS, T_CERTIFICATIONS, T_AWARDS}

W4       == "\n    "
WB       == "\n    \n    "
SEC_EDU  == "<section id=\"education\">"
SEC_SKL  == "<section id=\"skills\">"
SEC_PRJ  == "<section id=\"projects\">"
SEC_CRT  == "<section id=\"certifications\">"
SEC_AWD  == "<section id=\"awards\">"
H2_PROFSUM == "<h2>Professional Summary</h2>"
H2_SUM   == "<h2>Summary</h2>"
H2_EXP   == "<h2>Experience</h2>"
H2_EDU   == "<h2>Education</h2>"
H2_SKL   == "<h2>Skills</h2>"
H2_PRJ   == "<h2>Projects</h2>"
H2_CRT   == "<h2>Certifications</h2>"
H2_AWDH  == "<h2>Awards & Honors</h2>"
H2_AWD   == "<h2>Awards</h2>"
HEAD_C   == "</head>"
BODY_C   == "</body>"
STYLE    == "<style>...</style>"
SPAN_O   == "<span>"
DIV_CI   == "<div class=\"contact-info\">"
DIV_SG   == "<div class=\"skills-grid\">"
SPAN_SC  == "<span class=\"skill-category\">"
SPAN_SI  == "<span class=\"skill-items\">"
SPAN_SP  == "<span class=\"skill-pill\">"
UL_PL    == "<ul class=\"projects-list\">"
UL_CL    == "<ul class=\"certs-list\">"
SPAN_PN  == "<span class=\"project-name\">"
SPAN_PT  == "<span class=\"project-tech\">"
SPAN_CERT == "<span class=\"cert-name\">"
COMMA    == ", "
PIPE     == " |"
EMDASH   == " --- "         \* the " \u2014 " of the awards formatter

AllWhitespace == Whitespace \cup {W4, WB}

\* dict.get(key, default)
Get(rec, key, default) == IF key \in DOMAIN rec THEN rec[key] ELSE default

\* one <section> of a built-in template, as the source lays it out
TemplateSection(open, heading, body) ==
    <<open, W8, heading, W8>> \o body \o <<W4, SEC_C>>

\* the built-in templates differ in the summary heading, the separators of the
\* contact line, the experience and skills tokens and the awards heading
BuiltinTemplate(h2_summary, sep, t_experience, t_skills, h2_awards) ==
    <<"<!DOCTYPE html>", NL, "<html lang=\"en\">", NL, "<head>",
      W4, "<meta charset=\"UTF-8\">",
      W4, "<meta name=\"viewport\" content=\"width=device-width, initial-scale=1.0\">",
      W4, "<title>", T_NAME, " - CV", "</title>",
      W4, STYLE, NL, HEAD_C, NL, "<body>",
      W4, "<header>", W8, "<h1>", T_NAME, "</h1>", W8, DIV_CI,
      W12, SPAN_O, T_EMAIL, SPAN_C>> \o sep \o
    <<W12, SPAN_O, T_PHONE, SPAN_C>> \o sep \o
    <<W12, SPAN_O, T_LOCATION, SPAN_C, W12, T_LINKS, W8, DIV_C, W4, "</header>", WB>>
    \o TemplateSection(SEC_SUM, h2_summary, <<P_SUM, T_SUMMARY, P_C>>) \o <<WB>>
    \o TemplateSection(SEC_EXP, H2_EXP, <<t_experience>>) \o <<WB>>
    \o TemplateSection(SEC_EDU, H2_EDU, <<T_EDUCATION>>) \o <<WB>>
    \o TemplateSection(SEC_SKL, H2_SKL, <<t_skills>>) \o <<WB>>
    \o TemplateSection(SEC_PRJ, H2_PRJ, <<T_PROJECTS>>) \o <<WB>>
    \o TemplateSection(SEC_CRT, H2_CRT, <<T_CERTIFICATIONS>>) \o <<WB>>
    \o TemplateSection(SEC_AWD, h2_awards, <<T_AWARDS>>)
    \o <<NL, BODY_C, NL, "</html>">>

get_default_template_html ==
    BuiltinTemplate(H2_PROFSUM, <<PIPE>>, T_EXPERIENCE, T_SKILLS, H2_AWDH)
get_modern_clean_template_html ==
    BuiltinTemplate(H2_SUM, <<>>, T_EXPERIENCE, T_SKILLS_PILLS, H2_AWD)
get_career_progression_template_html ==
    BuiltinTemplate(H2_PROFSUM, <<PIPE>>, T_EXPERIENCE_GROUPED, T_SKILLS, H2_AWDH)

\* _format_education_html: newest first
EducationBlock(edu) ==
    LET highlights == IF Get(edu, "highlights", <<>>) # <<>>
                      THEN <<UL_O>> \o BulletItems(edu.highlights) \o <<UL_C>> ELSE <<>>
        gpa == IF Get(edu, "gpa", <<>>) # <<>> THEN <<" | GPA: ">> \o edu.gpa ELSE <<>>
    IN <<W8, ART_E, W12, DIV_EH,
         W16, SPAN_ET>> \o Get(edu, "degree", <<>>) \o <<" in ">>
                        \o Get(edu, "field", <<>>) \o <<SPAN_C,
         W16, SPAN_ED>> \o Get(edu, "start_date", <<>>) \o <<DASH>>
                        \o Get(edu, "end_date", <<>>) \o <<SPAN_C,
         W12, DIV_C, W12, DIV_EH,
         W16, SPAN_ES>> \o Get(edu, "institution", <<>>) \o gpa \o <<SPAN_C,
         W12, DIV_C, W12>> \o highlights \o <<W8, ART_C, W8>>

format_education_html(education) ==
    IF education = <<>> THEN <<>>
    ELSE LET sorted_edu == Reversed(education)
         IN Join(<<NL>>, [k \in 1..Len(sorted_edu) |-> EducationBlock(sorted_edu[k])])

\* the keys of the skills dict in its stored order, and str.title() of each
SkillCategories == <<"technical", "soft", "languages", "tools">>
DisplayName(category) ==
    CASE category = "technical" -> "Technical"
      [] category = "soft"      -> "Soft"
      [] category = "languages" -> "Languages"
      [] category = "tools"     -> "Tools"

AnySkills(skills) == \E c \in DOMAIN skills : skills[c] # <<>>

SkillsParts(skills, Part(_, _)) ==
    <<<<DIV_SG>>>>
    \o Concat([k \in 1..Len(SkillCategories) |->
                 IF SkillCategories[k] \in DOMAIN skills /\ skills[SkillCategories[k]] # <<>>
                 THEN Part(SkillCategories[k], skills[SkillCategories[k]]) ELSE <<>>])
    \o <<<<DIV_C>>>>

format_skills_html(skills) ==
    IF ~AnySkills(skills) THEN <<>>
    ELSE Join(<<NL>>, SkillsParts(skills,
            LAMBDA category, items :
                << <<SPAN_SC, DisplayName(category), ":", SPAN_C>>,
                   <<SPAN_SI>> \o Join(<<COMMA>>, items) \o <<SPAN_C>> >>))

format_skills_pills_html(skills) ==
    IF ~AnySkills(skills) THEN <<>>
    ELSE Join(<<NL>>, SkillsParts(skills,
            LAMBDA category, items :
                << <<SPAN_SC, DisplayName(category), SPAN_C>> >>
                \o [k \in 1..Len(items) |-> <<SPAN_SP>> \o items[k] \o <<SPAN_C>>]))

ProjectBlock(proj) ==
    LET tech == IF Get(proj, "technologies", <<>>) # <<>>
                THEN <<SPAN_PT, "(">> \o Join(<<COMMA>>, proj.technologies)
                     \o <<")", SPAN_C>>
                ELSE <<>>
        bullets == IF Get(proj, "bullets", <<>>) # <<>>
                   THEN <<UL_O>> \o BulletItems(proj.bullets) \o <<UL_C>> ELSE <<>>
    IN <<W8, LI_O, W12, SPAN_PN>> \o Get(proj, "name", <<>>) \o <<SPAN_C, SP>> \o tech
       \o <<W12, P_O>> \o Get(proj, "description", <<>>) \o <<P_C, W12>> \o bullets
       \o <<W8, LI_C, W8>>

format_projects_html(projects) ==
    IF projects = <<>> THEN <<>>
    ELSE Join(<<NL>>, <<<<UL_PL>>>>
                      \o [k \in 1..Len(projects) |-> ProjectBlock(projects[k])]
                      \o <<<<UL_C>>>>)

CertBlock(cert) ==
    <<W8, LI_O, W12, SPAN_CERT>> \o Get(cert, "name", <<>>) \o <<SPAN_C, DASH, W12>>
    \o Get(cert, "issuer", <<>>) \o <<" (">> \o Get(cert, "date", <<>>)
    \o <<")", W8, LI_C, W8>>

format_certs_html(certifications) ==
    IF certifications = <<>> THEN <<>>
    ELSE Join(<<NL>>, <<<<UL_CL>>>>
                      \o [k \in 1..Len(certifications) |-> CertBlock(certifications[k])]
                      \o <<<<UL_C>>>>)

AwardBlock(award) ==
    LET display_text ==
            IF Get(award, "text", <<>>) # <<>> THEN award.text
            ELSE Get(award, "name", <<>>)
                 \o (IF Get(award, "issuer", <<>>) # <<>>
                     THEN <<EMDASH>> \o award.issuer ELSE <<>>)
                 \o (IF Get(award, "date", <<>>) # <<>>
                     THEN <<" (">> \o award.date \o <<")">> ELSE <<>>)
                 \o (IF Get(award, "description", <<>>) # <<>>
                     THEN <<": ">> \o award.description ELSE <<>>)
    IN <<W8, LI_O>> \o display_text \o <<LI_C, W8>>

format_awards_html(awards) ==
    IF awards = <<>> THEN <<>>
    ELSE Join(<<NL>>, <<<<UL_CL>>>>
                      \o [k \in 1..Len(awards) |-> AwardBlock(awards[k])]
                      \o <<<<UL_C>>>>)

\* -------------------------------------------------------------------------
\* cv_generator.py: fill_template_with_experiences
\* -------------------------------------------------------------------------
HTTPS    == "https://"
HTTP     == "http://"
WWW      == "www."
LINKEDIN_IN == "linkedin.com/in/"
GITHUB_COM  == "github.com/"
A_C      == "</a>"
LINK_SEP == " | "
PRINT_CSS   == "\n<style>/* Universal print styles */</style>\n"
COMPACT_CSS == "\n<style>/* Compact Mode */</style>\n"
VERY_COMPACT_CSS == "\n<style>/* Very Compact Mode */</style>\n"
PREVIEW_CSS == "\n<style>/* Paginated Preview */</style>\n"

\* str.replace(tok, value): every occurrence, left to right
RECURSIVE Replace(_, _, _)
Replace(doc, tok, value) ==
    LET k == Find(doc, {tok}, 1)
    IN IF k = 0 THEN doc
       ELSE SubSeq(doc, 1, k - 1) \o value
            \o Replace(SubSeq(doc, k + 1, Len(doc)), tok, value)

\* s.replace("https://", "").replace("http://", "").replace("www.", "")
DropProtocol(s) == Replace(Replace(Replace(s, HTTPS, <<>>), HTTP, <<>>), WWW, <<>>)

Anchor(url, display) == <<"<a href=\"">> \o url \o <<"\">">> \o display \o <<A_C>>

\* the (link URL, display string) pair built from a stored handle or URL:
\* the value stripped; if it names the host, protocol and www. dropped and, if
\* it then starts with the host path, every occurrence of the host path removed
NormalizeHandle(value, host, url_prefix) ==
    LET stripped == Strip(value)
        bare     == DropProtocol(stripped)
        handle   == IF \E k \in 1..Len(stripped) : stripped[k] = host
                    THEN (IF bare # <<>> /\ Head(bare) = host
                          THEN Replace(bare, host, <<>>) ELSE bare)
                    ELSE stripped
    IN [url |-> url_prefix \o handle, display |-> <<host>> \o handle]

NormalizeLinkedin(value) == NormalizeHandle(value, LINKEDIN_IN, <<HTTPS, WWW, LINKEDIN_IN>>)
NormalizeGithub(value)   == NormalizeHandle(value, GITHUB_COM, <<HTTPS, GITHUB_COM>>)

\* the linkedin, github and website links of the contact line
LinkedinLink(contact) ==
    IF Get(contact, "linkedin", <<>>) = <<>> THEN <<>>
    ELSE LET n == NormalizeLinkedin(contact.linkedin) IN << Anchor(n.url, n.display) >>

GithubLink(contact) ==
    IF Get(contact, "github", <<>>) = <<>> THEN <<>>
    ELSE LET n == NormalizeGithub(contact.github) IN << Anchor(n.url, n.display) >>

WebsiteLink(contact) ==
    IF Get(contact, "website", <<>>) = <<>> THEN <<>>
    ELSE LET website_input == Strip(contact.website)
             website_url ==
                 IF website_input # <<>> /\ Head(website_input) \notin {HTTP, HTTPS}
                 THEN <<HTTPS>> \o website_input ELSE website_input
         IN << Anchor(website_url, DropProtocol(website_url)) >>

ContactLinks(contact) ==
    LET links == LinkedinLink(contact) \o GithubLink(contact) \o WebsiteLink(contact)
    IN IF links = <<>> THEN <<>> ELSE <<LINK_SEP>> \o Join(<<LINK_SEP>>, links)

\* the placeholders {{CONTACT_LINKEDIN}} and {{CONTACT_GITHUB}} take the stored
\* value stripped, without the normalisation of the contact line
HandleText(prefix, value) ==
    IF Strip(value) = <<>> THEN <<>> ELSE <<prefix>> \o Strip(value)

\* \s* at position pos: the first position that holds no whitespace
RECURSIVE SkipSpace(_, _)
SkipSpace(doc, pos) ==
    IF pos <= Len(doc) /\ doc[pos] \in AllWhitespace THEN SkipSpace(doc, pos + 1) ELSE pos

\* the markers of a pattern, whitespace allowed between them, matched at pos:
\* the position after the match, 0 if there is none
RECURSIVE MatchMarkers(_, _, _)
MatchMarkers(doc, pos, markers) ==
    IF pos > Len(doc) \/ doc[pos] # Head(markers) THEN 0
    ELSE IF Len(markers) = 1 THEN pos + 1
         ELSE MatchMarkers(doc, SkipSpace(doc, pos + 1), Tail(markers))

\* re.sub(open .*? markers, '', doc, flags=re.DOTALL) from position pos on
RECURSIVE RemovePattern(_, _, _)
RemovePattern(doc, pos, pat) ==
    LET opens == {k \in pos..Len(doc) :
                    /\ doc[k] = pat.open
                    /\ \E j \in (k + 1)..Len(doc) : MatchMarkers(doc, j, pat.markers) # 0}
        k     == Min(opens)
        j     == Min({i \in (k + 1)..Len(doc) : MatchMarkers(doc, i, pat.markers) # 0})
    IN IF opens = {} THEN Slice(doc, pos, Len(doc))
       ELSE Slice(doc, pos, k - 1)
            \o RemovePattern(doc, MatchMarkers(doc, j, pat.markers), pat)

EmptySectionPatterns ==
    << [open |-> SEC_SUM, markers |-> <<P_SUM, P_C, SEC_C>>],
       [open |-> SEC_EXP, markers |-> <<H2_EXP, SEC_C>>],
       [open |-> SEC_EDU, markers |-> <<H2_EDU, SEC_C>>],
       [open |-> SEC_SKL, markers |-> <<H2_SKL, SEC_C>>],
       [open |-> SEC_PRJ, markers |-> <<H2_PRJ, SEC_C>>],
       [open |-> SEC_CRT, markers |-> <<H2_CRT, SEC_C>>],
       [open |-> SEC_AWD, markers |-> <<H2_AWDH, SEC_C>>] >>

RECURSIVE RemoveAll(_, _)
RemoveAll(doc, patterns) ==
    IF patterns = <<>> THEN doc
    ELSE RemoveAll(RemovePattern(doc, 1, Head(patterns)), Tail(patterns))

remove_empty_sections(doc) == RemoveAll(doc, EmptySectionPatterns)

get_compact_mode_css(level) ==
    CASE level = "compact"      -> <<COMPACT_CSS>>
      [] level = "very_compact" -> <<VERY_COMPACT_CSS>>
      [] OTHER                  -> <<>>

get_paginated_preview_css == <<PREVIEW_CSS>>

\* the replacements in the order the code makes them
Substitutions(exps) ==
    LET contact == Get(exps, "contact", <<>>)
        work    == Get(exps, "work_experiences", <<>>)
    IN << <<T_NAME, Get(contact, "name", <<"Your Name">>)>>,
          <<T_EMAIL, Get(contact, "email", <<"email@example.com">>)>>,
          <<T_PHONE, Get(contact, "phone", <<>>)>>,
          <<T_LOCATION, Get(contact, "location", <<>>)>>,
          <<T_LINKS, ContactLinks(contact)>>,
          <<T_LINKEDIN, HandleText(LINKEDIN_IN, Get(contact, "linkedin", <<>>))>>,
          <<T_GITHUB, HandleText(GITHUB_COM, Get(contact, "github", <<>>))>>,
          <<T_SUMMARY, Get(exps, "summary", <<>>)>>,
          <<T_EXPERIENCE, format_experience_html(work)>>,
          <<T_EXPERIENCE_GROUPED, format_experience_grouped_html(work)>>,
          <<T_EDUCATION, format_education_html(Get(exps, "education", <<>>))>>,
          <<T_SKILLS, format_skills_html(Get(exps, "skills", <<>>))>>,
          <<T_SKILLS_PILLS, format_skills_pills_html(Get(exps, "skills", <<>>))>>,
          <<T_PROJECTS, format_projects_html(Get(exps, "projects", <<>>))>>,
          <<T_CERTIFICATIONS, format_certs_html(Get(exps, "certifications", <<>>))>>,
          <<T_AWARDS, format_awards_html(Get(exps, "awards", <<>>))>> >>

RECURSIVE ReplaceAll(_, _)
ReplaceAll(doc, subs) ==
    IF subs = <<>> THEN doc
    ELSE ReplaceAll(Replace(doc, Head(subs)[1], Head(subs)[2]), Tail(subs))

InjectCss(doc, injected_css) ==
    IF \E k \in 1..Len(doc) : doc[k] = HEAD_C
    THEN Replace(doc, HEAD_C, injected_css \o <<HEAD_C>>)
    ELSE IF \E k \in 1..Len(doc) : doc[k] = BODY_C
         THEN Replace(doc, BODY_C, injected_css \o <<BODY_C>>)
         ELSE doc

fill_template_with_experiences(template, exps, compact_mode, show_page_preview) ==
    LET substituted  == ReplaceAll(template, Substitutions(exps))
        injected_css == <<PRINT_CSS>>
                        \o (IF compact_mode # "normal"
                            THEN get_compact_mode_css(compact_mode) ELSE <<>>)
                        \o (IF show_page_preview THEN get_paginated_preview_css ELSE <<>>)
    IN InjectCss(remove_empty_sections(substituted), injected_css)

\* -------------------------------------------------------------------------
\* Filling a template with a stored record
\* -------------------------------------------------------------------------
EmptyDict == [k \in {} |-> <<>>]

CustomTemplate ==
    <<"<body>", P_O, T_NAME, P_C, P_O, T_LINKEDIN, P_C, P_O, T_GITHUB, P_C, NL, BODY_C>>

\* a user's template that is a fragment: no head, no body
FragmentTemplate == <<P_O, T_NAME, P_C, NL, P_O, T_LINKS, P_C>>

BuiltinTemplates ==
    {get_default_template_html, get_modern_clean_template_html,
     get_career_progression_template_html}

CustomTemplates == {CustomTemplate, FragmentTemplate}

Templates == BuiltinTemplates \cup CustomTemplates

WorkExp(role, company, is_current, created_at) ==
    [role |-> <<role>>, company |-> company, start_date |-> <<"2020">>,
     end_date |-> IF is_current THEN <<"Present">> ELSE <<"2021">>,
     location |-> <<"Berlin">>, bullets |-> << <<"x">> >>,
     is_current |-> is_current, created_at |-> created_at]

ContactOptions ==
    { EmptyDict,
      [name |-> <<"Ann">>, email |-> <<"ann@x.org">>, phone |-> <<"555">>,
       location |-> <<"Berlin">>, linkedin |-> <<"ann">>, github |-> <<SP, "ann">>,
       website |-> <<"ann.dev">>],
      [name |-> <<"Ann">>, email |-> <<"ann@x.org">>, phone |-> <<"555">>,
       location |-> <<"Berlin">>, linkedin |-> <<HTTPS, WWW, LINKEDIN_IN, "ann">>,
       github |-> <<HTTPS, GITHUB_COM, "ann">>, website |-> <<HTTP, WWW, "ann.dev">>] }

SummaryOptions == { <<>>, <<WS>>, <<"s">>, <<T_NAME>> }

WorkOptions ==
    { <<>>,
      <<WorkExp("Role 1", <<"Acme">>, FALSE, 1), WorkExp("Role 2", <<"Acme">>, TRUE, 2)>> }

EducationOptions ==
    { <<>>,
      <<[degree |-> <<"BSc">>, field |-> <<"Maths">>, institution |-> <<"TU">>,
         start_date |-> <<"2010">>, end_date |-> <<"2013">>, gpa |-> <<"3.9">>,
         highlights |-> << <<"x">> >>]>> }

SkillsOptions ==
    { EmptyDict,
      [technical |-> <<>>, soft |-> <<>>, languages |-> <<>>, tools |-> <<>>],
      [technical |-> << <<"TLA+">>, <<"Python">> >>, soft |-> <<>>,
       languages |-> << <<"German">> >>, tools |-> <<>>] }

ProjectOptions ==
    { <<>>,
      <<[name |-> <<"cv">>, description |-> <<"d">>,
         technologies |-> << <<"Python">> >>, bullets |-> << <<"x">> >>]>> }

CertOptions ==
    { <<>>, <<[name |-> <<"CKA">>, issuer |-> <<"CNCF">>, date |-> <<"2022">>]>> }

AwardOptions ==
    { <<>>, <<[text |-> <<"Prize">>]>>,
      <<[name |-> <<"Prize">>, issuer |-> <<"ACM">>, date |-> <<"2022">>]>> }

\* records that lack keys (a contact block without email, no contact block),
\* and contact handles with a subdomain, a protocol or www.
PartialRecords ==
    { [contact |-> [name |-> <<"Ann">>]],
      [contact |-> [name |-> <<"Ann">>, email |-> <<"ann@x.org">>,
                    linkedin |-> <<HTTPS, "uk.", LINKEDIN_IN, "ann">>,
                    github |-> <<WWW, "ann">>]],
      [contact |-> [name |-> <<"Ann">>, email |-> <<"ann@x.org">>,
                    linkedin |-> <<HTTP, "ann">>,
                    github |-> <<GITHUB_COM, "ann", "/", GITHUB_COM>>]],
      [summary |-> <<"s">>, contact |-> [email |-> <<"ann@x.org">>, linkedin |-> <<"ann">>]],
      [summary |-> <<"s">>] }

Records ==
    { [contact |-> c, summary |-> s, work_experiences |-> w, education |-> e,
       skills |-> k, projects |-> p, certifications |-> t, awards |-> a] :
        c \in ContactOptions, s \in SummaryOptions, w \in WorkOptions,
        e \in EducationOptions, k \in SkillsOptions, p \in ProjectOptions,
        t \in CertOptions, a \in AwardOptions }
    \cup PartialRecords

CompactModes == {"normal", "compact", "very_compact"}

\* the records given to the user's templates, which show the contact block only
ContactRecords ==
    { [contact |-> c, summary |-> <<"s">>, work_experiences |-> <<>>, education |-> <<>>,
       skills |-> EmptyDict, projects |-> <<>>, certifications |-> <<>>, awards |-> <<>>] :
        c \in ContactOptions }
    \cup PartialRecords

InitFill ==
    /\ \/ template_html \in BuiltinTemplates /\ experiences \in Records
       \/ template_html \in CustomTemplates /\ experiences \in ContactRecords
    /\ filled = NoFill
    /\ EditorIdle /\ RenderIdle /\ AppsIdle

\* generate_cv / the preview: one call of the filler on the stored record
FillTemplate ==
    \E compact_mode \in CompactModes, show_page_preview \in BOOLEAN :
        /\ filled.op = "none"
        /\ filled' = [op |-> "fill", compact_mode |-> compact_mode,
                      show_page_preview |-> show_page_preview,
                      html |-> fill_template_with_experiences(
                                   template_html, experiences,
                                   compact_mode, show_page_preview)]
        /\ UNCHANGED <<template_html, experiences, editVars, renderVars, appVars>>

NextFill == FillTemplate

SpecFill == InitFill /\ [][NextFill]_vars

\* -------------------------------------------------------------------------
\* Claims about the filled template (SpecFill)
\* -------------------------------------------------------------------------
IsFilled == filled.op = "fill"

Occurs(tok, doc) == \E k \in 1..Len(doc) : doc[k] = tok

\* the record field a placeholder is filled from, as a path of keys
FieldOf(tok) ==
    CASE tok = T_NAME     -> <<"contact", "name">>
      [] tok = T_EMAIL    -> <<"contact", "email">>
      [] tok = T_PHONE    -> <<"contact", "phone">>
      [] tok = T_LOCATION -> <<"contact", "location">>
      [] tok = T_LINKS    -> <<"contact">>
      [] tok = T_LINKEDIN -> <<"contact", "linkedin">>
      [] tok = T_GITHUB   -> <<"contact", "github">>
      [] tok = T_SUMMARY  -> <<"summary">>
      [] tok \in {T_EXPERIENCE, T_EXPERIENCE_GROUPED} -> <<"work_experiences">>
      [] tok = T_EDUCATION -> <<"education">>
      [] tok \in {T_SKILLS, T_SKILLS_PILLS} -> <<"skills">>
      [] tok = T_PROJECTS -> <<"projects">>
      [] tok = T_CERTIFICATIONS -> <<"certifications">>
      [] tok = T_AWARDS   -> <<"awards">>

Supplied(tok, exps) ==
    LET path == FieldOf(tok)
    IN /\ path[1] \in DOMAIN exps
       /\ Len(path) = 2 => path[2] \in DOMAIN exps[path[1]]

\* C9: after fill_template_with_experiences no placeholder of the fixed
\* vocabulary whose record field was supplied remains in the output, for every
\* template and every record.
C9_SubstitutionTotality ==
    IsFilled =>
        \A tok \in Vocabulary :
            Supplied(tok, experiences) => ~Occurs(tok, filled.html)

\* the sections of the built-in templates: the opening tag, the headings the
\* templates give it, and whether the record fields feeding it are empty
Sections(exps) ==
    { [open |-> SEC_SUM, headings |-> {H2_PROFSUM, H2_SUM},
       empty |-> Get(exps, "summary", <<>>) = <<>>],
      [open |-> SEC_EXP, headings |-> {H2_EXP}, empty |-> Get(exps, "work_experiences", <<>>) = <<>>],
      [open |-> SEC_EDU, headings |-> {H2_EDU}, empty |-> Get(exps, "education", <<>>) = <<>>],
      [open |-> SEC_SKL, headings |-> {H2_SKL}, empty |-> ~AnySkills(Get(exps, "skills", EmptyDict))],
      [open |-> SEC_PRJ, headings |-> {H2_PRJ}, empty |-> Get(exps, "projects", <<>>) = <<>>],
      [open |-> SEC_CRT, headings |-> {H2_CRT}, empty |-> Get(exps, "certifications", <<>>) = <<>>],
      [open |-> SEC_AWD, headings |-> {H2_AWDH, H2_AWD}, empty |-> Get(exps, "awards", <<>>) = <<>>] }

SectionAbsent(sec, doc) ==
    \A tok \in {sec.open} \cup sec.headings : ~Occurs(tok, doc)

\* C10: in each of the three built-in templates a section whose feeding record
\* fields are all empty is absent from the filled document, heading included.
C10_EmptySectionSuppression ==
    (IsFilled /\ template_html \in BuiltinTemplates) =>
        \A sec \in Sections(experiences) :
            sec.empty => SectionAbsent(sec, filled.html)

\* the record with every absent contact field present and empty
WithAbsentFieldsEmpty(exps) ==
    LET contact == Get(exps, "contact", EmptyDict)
    IN [k \in DOMAIN exps \cup {"contact"} |->
          IF k = "contact"
          THEN [f \in DOMAIN contact \cup {"name", "email", "phone", "location"} |->
                   Get(contact, f, <<>>)]
          ELSE exps[k]]

\* C11: a field the record lacks is rendered as the empty string: the filled
\* document is the one the record gives with the absent field present and
\* empty, never one that holds a default filler text.
C11_AbsentFieldsEmpty ==
    IsFilled =>
        filled.html = fill_template_with_experiences(
                          template_html, WithAbsentFieldsEmpty(experiences),
                          filled.compact_mode, filled.show_page_preview)

\* the stored LinkedIn and GitHub values of the record, each with its normalizer
StoredHandles(exps) ==
    LET contact == Get(exps, "contact", EmptyDict)
    IN (IF Get(contact, "linkedin", <<>>) # <<>>
        THEN {[value |-> contact.linkedin, host |-> LINKEDIN_IN,
               url_prefix |-> <<HTTPS, WWW, LINKEDIN_IN>>]} ELSE {})
       \cup
       (IF Get(contact, "github", <<>>) # <<>>
        THEN {[value |-> contact.github, host |-> GITHUB_COM,
               url_prefix |-> <<HTTPS, GITHUB_COM>>]} ELSE {})

\* C12: normalizing a stored LinkedIn or GitHub value gives a (link URL,
\* display string) pair, and normalizing that display string or that link URL
\* again gives the same pair.
C12_IdempotentNormalization ==
    IsFilled =>
        \A h \in StoredHandles(experiences) :
            LET once == NormalizeHandle(h.value, h.host, h.url_prefix)
            IN /\ NormalizeHandle(once.display, h.host, h.url_prefix) = once
               /\ NormalizeHandle(once.url, h.host, h.url_prefix) = once

\* -------------------------------------------------------------------------
\* Claims about the tag-boundary matcher (SpecEdit)
\* -------------------------------------------------------------------------
\* the tags whose blocks the bullet updater looks for
MatchedTags == {"article", "div"}

\* the positions of the opening tags of tag_name in doc
OpeningsOf(doc, tag_name) ==
    {m \in 1..Len(doc) : Lower(doc[m]) \in OpenTagsOf(tag_name)}

\* the nesting counter after position k, for a scan started at start_pos:
\* 1, plus one per opening and minus one per closing tag of tag_name so far
NestingCounter(doc, start_pos, k, tag_name) ==
    1 + Cardinality({i \in start_pos..k : Lower(doc[i]) \in OpenTagsOf(tag_name)})
      - Cardinality({i \in start_pos..k : Lower(doc[i]) \in CloseTagsOf(tag_name)})

\* the positions from start_pos on at which the counter is zero
CounterZeros(doc, start_pos, tag_name) ==
    {k \in start_pos..Len(doc) : NestingCounter(doc, start_pos, k, tag_name) = 0}

\* C13: started immediately after an opening tag of tag_name, the matcher
\* returns the position of the closing tag at which the nesting counter first
\* reaches zero, whatever the depth of nesting and the other tags around.
C13_MatcherCorrect ==
    IsBulletUpdate =>
        \A tag_name \in MatchedTags :
            \A m \in OpeningsOf(SearchHtml(html), tag_name) :
                LET zeros == CounterZeros(SearchHtml(html), m + 1, tag_name)
                IN zeros # {} =>
                     find_matching_close_tag(SearchHtml(html), m + 1, tag_name) = Min(zeros)

\* C13 witness: a bullet update on a document with an entry that holds a nested
\* block of the same tag, matched at the outer closing tag.
C13_Witness ==
    /\ IsBulletUpdate
    /\ \E tag_name \in MatchedTags :
          \E m \in OpeningsOf(SearchHtml(html), tag_name) :
              LET close_pos == find_matching_close_tag(SearchHtml(html), m + 1, tag_name)
              IN /\ close_pos # 0
                 /\ \E i \in (m + 1)..(close_pos - 1) :
                       Lower(SearchHtml(html)[i]) \in CloseTagsOf(tag_name)

\* C14: where no close matches before the document ends the matcher returns
\* the not-found value, and the bullet updater skips that candidate block.
C14_MatcherNotFound ==
    IsBulletUpdate =>
        \A tag_name \in MatchedTags :
            \A m \in OpeningsOf(SearchHtml(html), tag_name) :
                CounterZeros(SearchHtml(html), m + 1, tag_name) = {} =>
                    /\ find_matching_close_tag(SearchHtml(html), m + 1, tag_name) = 0
                    /\ \A k \in 1..Len(AllEntries(SearchHtml(html))) :
                          AllEntries(SearchHtml(html))[k].start # m

\* C14 witness: a bullet update on a document with an unclosed entry that
\* holds a list, on which the call returns.
C14_Witness ==
    /\ IsBulletUpdate
    /\ ~last.result.raised
    /\ \E m \in OpeningsOf(SearchHtml(html), "article") :
          /\ SearchHtml(html)[m] = ART_E
          /\ CounterZeros(SearchHtml(html), m + 1, "article") = {}
          /\ \E i \in (m + 1)..Len(SearchHtml(html)) : SearchHtml(html)[i] \in UlOpenTags

\* -------------------------------------------------------------------------
\* Claims about the extracted entries (SpecEdit)
\* -------------------------------------------------------------------------
IsExtract == last.op = "extract"

\* C15: every entry extract_experiences_from_html returns has at least one
\* bullet, and no block without list items is returned.
C15_ZeroBulletExclusion ==
    IsExtract =>
        \A k \in 1..Len(last.experiences) :
            /\ Len(last.experiences[k].bullets) >= 1
            /\ \E i \in 1..Len(last.experiences[k].raw_html) :
                  Lower(last.experiences[k].raw_html[i]) = LI_O

\* C15 witness: an extraction that returns an entry from a document that also
\* holds an entry block with an empty list.
C15_Witness ==
    /\ IsExtract
    /\ last.experiences # <<>>
    /\ \E i \in 1..(Len(html) - 2) :
          html[i] = ART_E /\ html[i + 1] = UL_O /\ html[i + 2] = UL_C

\* C16: the entry at list position k of the extractor's result has index k,
\* counted from zero, across the strategies.
C16_DenseIndices ==
    IsExtract =>
        \A k \in 1..Len(last.experiences) : last.experiences[k].index = k - 1

\* C16 witness: an extraction that found an article entry and a role entry in
\* a document where the role entry stands before the article.
C16_Witness ==
    /\ IsExtract
    /\ \E j, k \in 1..Len(last.experiences) :
          j < k /\ last.experiences[j].type = "article"
                /\ last.experiences[k].type = "role-entry"
    /\ \E i, j \in 1..Len(html) : i < j /\ html[i] = DIV_R /\ html[j] = ART_E

\* -------------------------------------------------------------------------
\* Claims about the summary extractor and updater (SpecEdit)
\* -------------------------------------------------------------------------
IsSummaryUpdate == last.op = "update_summary"

\* the text the extractor locates in the document, between tags open and close
Located == LocateSummaryFrom(html, 1)

\* C17: on every document in which extract_summary_from_html locates a summary,
\* update_summary_in_html replaces that located text and nothing else, so an
\* update with a different text is a no-op only where no pattern matches.
C17_SamePatternList ==
    (IsSummaryUpdate /\ Located.found /\ ~last.result.raised) =>
        LET new  == last.result.html
            tail == Len(html) - Located.close
        IN /\ Len(new) >= Located.open + tail + 1
           /\ Slice(new, 1, Located.open) = Slice(html, 1, Located.open)
           /\ Slice(new, Len(new) - tail, Len(new)) = Slice(html, Located.close, Len(html))
           /\ last.new_summary # Slice(html, Located.open + 1, Located.close - 1)
                 => new # html

\* the style blocks a call injects
InjectedCss ==
    <<PRINT_CSS>>
    \o (CASE filled.compact_mode = "compact"      -> <<COMPACT_CSS>>
          [] filled.compact_mode = "very_compact" -> <<VERY_COMPACT_CSS>>
          [] OTHER                                -> <<>>)
    \o (IF filled.show_page_preview THEN <<PREVIEW_CSS>> ELSE <<>>)

\* css stands in doc immediately before an occurrence of tok
ImmediatelyBefore(css, tok, doc) ==
    \E k \in (Len(css) + 1)..Len(doc) :
        doc[k] = tok /\ SubSeq(doc, k - Len(css), k - 1) = css

\* C18: the injected style blocks stand immediately before the closing head
\* tag when the template has one, otherwise immediately before the closing
\* body tag, and at the end of the output when the template has neither.
C18_CssInjectionPlacement ==
    IsFilled =>
        IF Occurs(HEAD_C, template_html)
        THEN ImmediatelyBefore(InjectedCss, HEAD_C, filled.html)
        ELSE IF Occurs(BODY_C, template_html)
        THEN ImmediatelyBefore(InjectedCss, BODY_C, filled.html)
        ELSE /\ Len(filled.html) >= Len(InjectedCss)
             /\ SubSeq(filled.html, Len(filled.html) - Len(InjectedCss) + 1,
                       Len(filled.html)) = InjectedCss

\* -------------------------------------------------------------------------
\* data_manager.py / app.py: the stored work experiences and the form that
\* adds and edits them
\* -------------------------------------------------------------------------
MaxClock == 5       \* timestamps handed out before editing stops

EndDates == {<<>>, <<"2021">>, <<"2022">>}

\* an updates dict that passes the end date of the form on as typed
FormUpdatesAsTyped(form) ==
    [company |-> form.new_company, role |-> form.new_role,
     start_date |-> form.new_start, end_date |-> form.new_end,
     location |-> form.new_location, bullets |-> form.bullets,
     is_current |-> form.new_current]

\* the updates dict the form hands to update_work_experience
FormUpdates(form) ==
    [company |-> form.new_company, role |-> form.new_role,
     start_date |-> form.new_start,
     end_date |-> IF form.new_current THEN <<"Present">> ELSE form.new_end,
     location |-> form.new_location, bullets |-> form.bullets,
     is_current |-> form.new_current]

\* exp.update(updates); exp["updated_at"] = datetime.now().isoformat()
UpdatedExperience(exp, updates, now) ==
    [f \in DOMAIN exp \cup DOMAIN updates \cup {"updated_at"} |->
        IF f = "updated_at" THEN now
        ELSE IF f \in DOMAIN updates THEN updates[f] ELSE exp[f]]

\* data_manager.update_work_experience on the entry whose id is that of the
\* k-th stored entry (ids are unique)
update_work_experience(exps, k, updates) ==
    [j \in 1..Len(exps) |->
        IF j = k THEN UpdatedExperience(exps[j], updates, Now(exps)) ELSE exps[j]]

\* the form submitted for the entry being edited, pre-filled with its values
SubmitExperienceUpdate ==
    \E k \in 1..Len(work_exps), new_company \in Companies,
       new_end \in EndDates, new_current \in BOOLEAN :
        /\ Now(work_exps) <= MaxClock
        /\ work_exps' = update_work_experience(work_exps, k,
              FormUpdates([new_company |-> new_company, new_role |-> work_exps[k].role,
                           new_start |-> work_exps[k].start_date, new_end |-> new_end,
                           new_location |-> work_exps[k].location,
                           bullets |-> work_exps[k].bullets,
                           new_current |-> new_current]))
        /\ UNCHANGED <<rendered, editVars, fillVars, appVars>>

NextStore == add_work_experience \/ SubmitExperienceUpdate

SpecStore == InitRender /\ [][NextStore]_vars

\* C19: after any sequence of additions and updates every stored work
\* experience with is_current = true has the end date "Present".
C19_CurrentRoleInvariant ==
    \A k \in 1..Len(work_exps) :
        work_exps[k].is_current => work_exps[k].end_date = <<"Present">>

\* C19 witness: an entry added as a past role and since updated to current,
\* beside an updated entry that is not current and has an end date.
C19_Witness ==
    \E j, k \in 1..Len(work_exps) :
        /\ "updated_at" \in DOMAIN work_exps[j] /\ work_exps[j].is_current
        /\ "updated_at" \in DOMAIN work_exps[k] /\ ~work_exps[k].is_current
        /\ work_exps[k].end_date = <<"2022">>

\* -------------------------------------------------------------------------
\* The application history: data_manager.py, "Application History", and the
\* handlers of app.py that write it.  An application is a record; the list
\* is kept most recent first.  Ids are 1, 2, ...: uuid4 never hands out the
\* same id twice, so an id once deleted is not issued again.  The role, the
\* job description, the template id, the role url and the notes are stored
\* beside the company and the document by the same assignments and are not
\* carried in the model.
\* -------------------------------------------------------------------------
MaxApps == 2        \* application ids handed out before saving stops

CvTexts == {<<"cv1", HEAD_C>>, <<"cv2">>}
JobCompanies == {<<>>, <<"Acme">>}

\* status_options of the history page
status_options == {"draft", "created", "applied", "interviewing", "rejected", "offer"}

\* the statuses the history page is exercised with
StatusChoices == {"draft", "applied"}

\* company or "Untitled Focus"
CompanyOrDefault(company) == IF company = <<>> THEN <<"Untitled Focus">> ELSE company

\* save_application: a new entry with a fresh id at the front of the list
save_application(apps, company, generated_html, status, app_id, now) ==
    [applications |->
        <<[id |-> app_id, company |-> CompanyOrDefault(company),
           generated_html |-> generated_html, status |-> status,
           created_at |-> now]>> \o apps,
     returned |-> app_id]

\* app.update(updates); app["updated_at"] = datetime.now().isoformat()
UpdatedApplication(app, updates, now) ==
    [f \in DOMAIN app \cup DOMAIN updates \cup {"updated_at"} |->
        IF f = "updated_at" THEN now
        ELSE IF f \in DOMAIN updates THEN updates[f] ELSE app[f]]

\* the position of the first entry with the id, 0 when there is none
FirstWithId(apps, app_id) ==
    IF \E k \in 1..Len(apps) : apps[k].id = app_id
    THEN CHOOSE k \in 1..Len(apps) :
            /\ apps[k].id = app_id
            /\ \A j \in 1..(k - 1) : apps[j].id # app_id
    ELSE 0

\* update_application: the first entry with the id takes the updates
update_application(apps, app_id, updates, now) ==
    [k \in 1..Len(apps) |->
        IF k = FirstWithId(apps, app_id)
        THEN UpdatedApplication(apps[k], updates, now) ELSE apps[k]]

\* delete_application: every entry with the id is dropped
delete_application(apps, app_id) ==
    SelectSeq(apps, LAMBDA app : app.id # app_id)

\* the position of the first entry with the id whatever its status
FirstDraftAnyStatus(apps, existing_draft_id) ==
    IF existing_draft_id = 0 THEN 0 ELSE FirstWithId(apps, existing_draft_id)

\* the position of the first entry save_or_update_draft overwrites: the
\* id is existing_draft_id and the status is "draft"; 0 when there is none
FirstDraft(apps, existing_draft_id) ==
    IF existing_draft_id # 0
       /\ \E k \in 1..Len(apps) :
              apps[k].id = existing_draft_id /\ apps[k].status = "draft"
    THEN CHOOSE k \in 1..Len(apps) :
            /\ apps[k].id = existing_draft_id /\ apps[k].status = "draft"
            /\ \A j \in 1..(k - 1) :
                  ~(apps[j].id = existing_draft_id /\ apps[j].status = "draft")
    ELSE 0

\* save_or_update_draft; app_id is the id uuid4 would hand out
save_or_update_draft(apps, company, generated_html, existing_draft_id, app_id, now) ==
    IF FirstDraft(apps, existing_draft_id) # 0
    THEN [applications |->
            [k \in 1..Len(apps) |->
                IF k = FirstDraft(apps, existing_draft_id)
                THEN UpdatedApplication(apps[k],
                        [company |-> CompanyOrDefault(company),
                         generated_html |-> generated_html], now)
                ELSE apps[k]],
          returned |-> existing_draft_id]
    ELSE save_application(apps, company, generated_html, "draft", app_id, now)

\* "Generate CV": the document the model returned is shown and auto-saved
\* as a draft under the session's current_draft_id
GenerateCv ==
    \E job_company \in JobCompanies, generated_html \in CvTexts,
       limit_one_page \in BOOLEAN :
        LET r == save_or_update_draft(applications, job_company, generated_html,
                    session_state.current_draft_id, ids_issued + 1, clock)
        IN  /\ ids_issued < MaxApps /\ clock <= MaxClock
            /\ applications' = r.applications
            /\ session_state' = [current_draft_id |-> r.returned,
                                 current_cv_html |-> generated_html,
                                 cv_job_company |-> job_company,
                                 cv_compact_mode |->
                                    IF limit_one_page THEN "compact"
                                    ELSE session_state.cv_compact_mode]
            /\ ids_issued' = IF r.returned = ids_issued + 1
                             THEN ids_issued + 1 ELSE ids_issued
            /\ clock' = clock + 1
            /\ last_save' = [op |-> "save_or_update_draft",
                             existing_draft_id |-> session_state.current_draft_id,
                             generated_html |-> generated_html,
                             returned |-> r.returned,
                             before |-> applications, after |-> r.applications]
            /\ UNCHANGED <<templates_data, editVars, renderVars, fillVars>>

\* save_cv_changes: a quick edit replaces the shown document and is written
\* to the draft the session holds
QuickEdit ==
    \E new_html \in CvTexts :
        /\ session_state.current_cv_html # <<>> /\ clock <= MaxClock
        /\ new_html # session_state.current_cv_html
        /\ session_state' = [session_state EXCEPT !.current_cv_html = new_html]
        /\ IF session_state.current_draft_id # 0
           THEN /\ applications' = update_application(applications,
                        session_state.current_draft_id,
                        [generated_html |-> new_html], clock)
                /\ clock' = clock + 1
           ELSE UNCHANGED <<applications, clock>>
        /\ UNCHANGED <<ids_issued, last_save, templates_data, editVars, renderVars, fillVars>>

\* the editor's layout selector
SelectCompactMode ==
    \E compact_mode \in CompactModes :
        /\ session_state.current_cv_html # <<>>
        /\ compact_mode # session_state.cv_compact_mode
        /\ session_state' = [session_state EXCEPT !.cv_compact_mode = compact_mode]
        /\ UNCHANGED <<applications, ids_issued, clock, last_save, templates_data,
                       editVars, renderVars, fillVars>>

\* "Regenerate"
Regenerate ==
    /\ session_state.current_cv_html # <<>>
    /\ session_state' = [session_state EXCEPT !.current_cv_html = <<>>,
                                              !.cv_compact_mode = "normal"]
    /\ UNCHANGED <<applications, ids_issued, clock, last_save, templates_data,
                   editVars, renderVars, fillVars>>

\* final_html of "Save Application": the shown document with the compact CSS
FinalHtml(session) ==
    IF session.cv_compact_mode # "normal"
    THEN InjectCss(session.current_cv_html,
                   get_compact_mode_css(session.cv_compact_mode))
    ELSE session.current_cv_html

\* the storage after "Save Application": the draft is promoted, or, when the
\* session holds no draft, a new application is saved
SavedApplications(apps, session, app_id, now) ==
    IF session.current_draft_id # 0
    THEN update_application(apps, session.current_draft_id,
            [generated_html |-> FinalHtml(session), status |-> "created"], now)
    ELSE save_application(apps, session.cv_job_company, FinalHtml(session),
                          "created", app_id, now).applications

\* "Save Application", up to st.success("Application saved!")
SaveApplication ==
    LET after == SavedApplications(applications, session_state, ids_issued + 1, clock)
    IN  /\ session_state.current_cv_html # <<>> /\ clock <= MaxClock
        /\ session_state.current_draft_id = 0 => ids_issued < MaxApps
        /\ applications' = after
        /\ session_state' = [session_state EXCEPT !.current_draft_id = 0]
        /\ ids_issued' = IF session_state.current_draft_id = 0
                         THEN ids_issued + 1 ELSE ids_issued
        /\ clock' = clock + 1
        /\ last_save' = [op |-> "save_application",
                         existing_draft_id |-> session_state.current_draft_id,
                         generated_html |-> FinalHtml(session_state),
                         returned |-> 0,
                         before |-> applications, after |-> after]
        /\ UNCHANGED <<templates_data, editVars, renderVars, fillVars>>

\* "Update Status" of the history page
UpdateStatus ==
    \E k \in 1..Len(applications), new_status \in StatusChoices :
        /\ new_status # applications[k].status /\ clock <= MaxClock
        /\ applications' = update_application(applications, applications[k].id,
                                [status |-> new_status], clock)
        /\ clock' = clock + 1
        /\ UNCHANGED <<session_state, ids_issued, last_save, templates_data,
                       editVars, renderVars, fillVars>>

\* "Delete Application" of the history page
DeleteApplication ==
    \E k \in 1..Len(applications) :
        /\ applications' = delete_application(applications, applications[k].id)
        /\ UNCHANGED <<session_state, ids_issued, clock, last_save, templates_data,
                       editVars, renderVars, fillVars>>

InitApps == AppsIdle /\ EditorIdle /\ RenderIdle /\ FillIdle

NextApps == GenerateCv \/ QuickEdit \/ SelectCompactMode \/ Regenerate
            \/ SaveApplication \/ UpdateStatus \/ DeleteApplication

SpecApps == InitApps /\ [][NextApps]_vars

IsDraftSave == last_save.op = "save_or_update_draft"

\* the positions of the entries the call was pointed at that were drafts
DraftsReferenced ==
    {k \in 1..Len(last_save.before) :
        /\ last_save.before[k].id = last_save.existing_draft_id
        /\ last_save.before[k].status = "draft"}

IdsBefore == {last_save.before[k].id : k \in 1..Len(last_save.before)}

\* C20: save_or_update_draft overwrites an application only when its id is
\* existing_draft_id and its status is "draft", and then the count and the
\* returned id are unchanged; when the referenced application has another
\* status or is gone, every stored application is left as it was and a new
\* one with status "draft" and a fresh id is put in front and returned.
C20_DraftsMutableWhileDrafts ==
    IsDraftSave =>
        IF DraftsReferenced # {}
        THEN /\ last_save.returned = last_save.existing_draft_id
             /\ Len(last_save.after) = Len(last_save.before)
             /\ \A k \in 1..Len(last_save.before) :
                    IF k \in DraftsReferenced
                    THEN /\ last_save.after[k].id = last_save.existing_draft_id
                         /\ last_save.after[k].status = "draft"
                         /\ last_save.after[k].generated_html = last_save.generated_html
                    ELSE last_save.after[k] = last_save.before[k]
        ELSE /\ last_save.returned \notin IdsBefore
             /\ Len(last_save.after) = Len(last_save.before) + 1
             /\ last_save.after[1].id = last_save.returned
             /\ last_save.after[1].status = "draft"
             /\ last_save.after[1].generated_html = last_save.generated_html
             /\ Tail(last_save.after) = last_save.before

\* C20 witness: a draft save pointed at an application that had been moved
\* to another status, with a different document stored in it.
C20_Witness ==
    /\ IsDraftSave
    /\ \E k \in 1..Len(last_save.before) :
          /\ last_save.before[k].id = last_save.existing_draft_id
          /\ last_save.before[k].status # "draft"
          /\ last_save.before[k].generated_html # last_save.generated_html
    /\ Len(last_save.after) = Len(last_save.before) + 1

\* -------------------------------------------------------------------------
\* Claims about the strategies of the extractor (SpecEdit)
\* -------------------------------------------------------------------------
\* the contents of the blocks the flat strategy looks at
FlatContents ==
    LET search_html == SearchHtml(html)
        ms == FindAllLazy(search_html, 1, {ART_E}, {ART_C})
    IN {Slice(search_html, ms[k].open + 1, ms[k].close - 1) : k \in 1..Len(ms)}

\* the reported entries that only the generic strategy can have found
GenericFound ==
    {k \in 1..Len(last.experiences) :
        /\ last.experiences[k].type = "article"
        /\ last.experiences[k].raw_html \notin FlatContents}

\* C21: in the result of extract_experiences_from_html the flat entries all
\* come before the role entries, and the generic strategy contributes entries
\* only when the flat and the role strategies found none.
C21_StrategySelection ==
    IsExtract =>
        /\ \A j, k \in 1..Len(last.experiences) :
              (last.experiences[j].type = "role-entry"
               /\ last.experiences[k].type = "article") => k < j
        /\ GenericFound # {} => GenericFound = 1..Len(last.experiences)

\* C21 witness: the document holds a generic article with a bullet that is
\* not reported, because a role entry was found.
C21_Witness ==
    /\ IsExtract
    /\ \E k \in 1..Len(html) : html[k] = ART_G /\ Len(html) >= k + 3
                                 /\ html[k + 1] = UL_O /\ html[k + 3] = "z"
    /\ last.experiences # <<>>
    /\ \A k \in 1..Len(last.experiences) : last.experiences[k].type = "role-entry"

\* the positions in the searched text of the role blocks that are reported:
\* those that close and hold a bullet, in order of occurrence
ReportedRoleStarts ==
    LET search_html == SearchHtml(html)
        starts == {m \in 1..Len(search_html) :
                     /\ Lower(search_html[m]) = DIV_R
                     /\ RoleEnd(search_html, m + 1, 1) # 0
                     /\ LiBullets(Slice(search_html, m + 1,
                                        RoleEnd(search_html, m + 1, 1) - 1)) # <<>>}
    IN [k \in 1..Cardinality(starts) |->
          CHOOSE m \in starts : Cardinality({j \in starts : j < m}) = k - 1]

\* the reported entries that are role entries, in order
ReportedRoles == SelectSeq(last.experiences, LAMBDA e : e.type = "role-entry")

\* the text of the last company-name element that starts before position m
\* of the searched text, empty when there is none
CompanyBefore(m) ==
    LET search_html == SearchHtml(html)
        names == {o \in 1..(m - 1) : Lower(search_html[o]) = SPAN_CN}
    IN IF names = {} THEN <<>>
       ELSE LET o == CHOOSE x \in names : \A y \in names : y <= x
                c == FindI(search_html, {SPAN_C}, o + 1)
            IN Strip(StripTags(Slice(search_html, o + 1, c - 1)))

\* C22: every role entry reported by extract_experiences_from_html has as its
\* company the text of the last company-name element that starts before the
\* role block in the searched text, and no company when none does.
C22_CompanyOfRole ==
    IsExtract =>
        /\ Len(ReportedRoles) = Len(ReportedRoleStarts)
        /\ \A k \in 1..Len(ReportedRoles) :
              ReportedRoles[k].company = CompanyBefore(ReportedRoleStarts[k])

\* C22 witness: a role reported with no company because none precedes it,
\* and a role of the second company group reported with that group's name.
C22_Witness ==
    /\ IsExtract
    /\ Len(ReportedRoles) >= 3
    /\ ReportedRoles[1].company = <<>>
    /\ ReportedRoles[2].company = <<"Acme">>
    /\ ReportedRoles[Len(ReportedRoles)].company = <<"Globex">>

\* whether the entry holds an element of the kind, and the element's text
HasElement(raw_html, open, close) ==
    \E o, c \in 1..Len(raw_html) :
        o < c /\ Lower(raw_html[o]) = open /\ Lower(raw_html[c]) = close

TextOfElement(raw_html, open, close) ==
    LET o == Min({k \in 1..Len(raw_html) : Lower(raw_html[k]) = open})
        c == Min({k \in (o + 1)..Len(raw_html) : Lower(raw_html[k]) = close})
    IN Strip(StripTags(Slice(raw_html, o + 1, c - 1)))

\* the first of three kinds of element that the entry holds, as its text
ChainText(raw_html, first, second, third) ==
    IF HasElement(raw_html, first[1], first[2])
    THEN TextOfElement(raw_html, first[1], first[2])
    ELSE IF HasElement(raw_html, second[1], second[2])
    THEN TextOfElement(raw_html, second[1], second[2])
    ELSE IF HasElement(raw_html, third[1], third[2])
    THEN TextOfElement(raw_html, third[1], third[2])
    ELSE <<>>

\* the reported entries the flat strategy found
FlatFound ==
    {k \in 1..Len(last.experiences) :
        last.experiences[k].type = "article" /\ k \notin GenericFound}

MatchingUpdatePatterns ==
    {k \in 1..Len(UpdatePatterns) :
        SummaryMatch(html, UpdatePatterns[k].section, UpdatePatterns[k].paragraph).found}

\* the match of the first update pattern that matches
UpdateTarget ==
    SummaryMatch(html, UpdatePatterns[Min(MatchingUpdatePatterns)].section,
                 UpdatePatterns[Min(MatchingUpdatePatterns)].paragraph)

\* C24: a summary update that returns changes only the text between the
\* opening tag and the closing tag of the first match of the first matching
\* pattern: the document up to and including that opening tag, and from that
\* closing tag to the end, is as it was; when no pattern matches, the
\* document is returned unchanged.
C24_SummaryUpdateFrame ==
    (IsSummaryUpdate /\ ~last.result.raised) =>
        IF MatchingUpdatePatterns = {} THEN last.result.html = html
        ELSE LET out  == last.result.html
                 head == UpdateTarget.open
                 tail == Len(html) - UpdateTarget.close + 1
             IN /\ Len(out) >= head + tail
                /\ Slice(out, 1, head) = Slice(html, 1, head)
                /\ Slice(out, Len(out) - tail + 1, Len(out))
                      = Slice(html, UpdateTarget.close, Len(html))

\* C24 witness: an update that changed the summary of a document with entries
\* after the summary section.
C24_Witness ==
    /\ IsSummaryUpdate /\ ~last.result.raised
    /\ MatchingUpdatePatterns # {}
    /\ last.result.html # html
    /\ Len(html) > UpdateTarget.close + 1

\* -------------------------------------------------------------------------
\* Claims about single-role companies under grouping (SpecRender)
\* -------------------------------------------------------------------------
\* the rendered experiences that are the only role of their company
SingleRoles ==
    {k \in 1..Len(rendered.experiences) :
        \A j \in 1..Len(rendered.experiences) :
            CompanyKey(rendered.experiences[j]) = CompanyKey(rendered.experiences[k])
            => j = k}

\* the companies with more than one role
MultiRoleCompanies ==
    {CompanyKey(rendered.experiences[k]) :
        k \in (1..Len(rendered.experiences)) \ SingleRoles}

\* part occurs in doc as a run of consecutive tokens
OccursIn(part, doc) ==
    \E i \in 0..(Len(doc) - Len(part)) : SubSeq(doc, i + 1, i + Len(part)) = part

\* a document without its whitespace tokens
WithoutWhitespace(doc) == SelectSeq(doc, LAMBDA tok : tok \notin Whitespace)

\* C25: in grouped rendering a company with exactly one role is rendered as
\* the block that ungrouped rendering produces for that experience, and
\* company-group wrappers are emitted for the other companies only.
C25_SingleRoleAsFlat ==
    rendered.op = "grouped" =>
        /\ \A k \in SingleRoles :
              OccursIn(format_experience_html(<<rendered.experiences[k]>>),
                       rendered.html)
        /\ CountOf(rendered.html, {DIV_CG}) = Cardinality(MultiRoleCompanies)

\* the same with whitespace left out of the comparison
C25_SingleRoleAsFlatUpToWhitespace ==
    rendered.op = "grouped" =>
        /\ \A k \in SingleRoles :
              OccursIn(WithoutWhitespace(
                          format_experience_html(<<rendered.experiences[k]>>)),
                       WithoutWhitespace(rendered.html))
        /\ CountOf(rendered.html, {DIV_CG}) = Cardinality(MultiRoleCompanies)

\* -------------------------------------------------------------------------
\* Claims about handles stored as full URLs (SpecFill)
\* -------------------------------------------------------------------------
Handles == {<<"ann">>}

\* the full profile URLs of a handle, with or without protocol and www
LinkedinUrls(h) ==
    {pre \o <<LINKEDIN_IN>> \o h :
        pre \in {<<>>, <<WWW>>, <<HTTPS>>, <<HTTP>>, <<HTTPS, WWW>>, <<HTTP, WWW>>}}

GithubUrls(h) ==
    {pre \o <<GITHUB_COM>> \o h :
        pre \in {<<>>, <<WWW>>, <<HTTPS>>, <<HTTP>>, <<HTTPS, WWW>>, <<HTTP, WWW>>}}

\* the record with one contact field set to the value
WithContact(exps, field, value) ==
    [exps EXCEPT !.contact = [f \in DOMAIN exps.contact |->
                                 IF f = field THEN value ELSE exps.contact[f]]]

StoredContact(field) ==
    IF "contact" \in DOMAIN experiences /\ field \in DOMAIN experiences.contact
    THEN experiences.contact[field] ELSE <<>>

\* C26: filling with a handle stored as its full profile URL gives the same
\* document as filling with the bare handle, for linkedin and for github, in
\* every template, whichever contact-link placeholders it uses.
C26_UrlAndHandleEquivalent ==
    IsFilled =>
        \A h \in Handles :
            /\ StoredContact("linkedin") \in LinkedinUrls(h) =>
                  filled.html = fill_template_with_experiences(template_html,
                                    WithContact(experiences, "linkedin", h),
                                    filled.compact_mode, filled.show_page_preview)
            /\ StoredContact("github") \in GithubUrls(h) =>
                  filled.html = fill_template_with_experiences(template_html,
                                    WithContact(experiences, "github", h),
                                    filled.compact_mode, filled.show_page_preview)

\* the same for the templates that use {{CONTACT_LINKS}} only
C26_EquivalentInContactLinks ==
    (\A tok \in {T_LINKEDIN, T_GITHUB} : ~Occurs(tok, template_html))
        => C26_UrlAndHandleEquivalent

\* -------------------------------------------------------------------------
\* Claims about the result of a bullet update (SpecEdit)
\* -------------------------------------------------------------------------
\* the contents of the list items of an entry, as they stand in the document
ListItems(content) ==
    LET ms == FindAllLazy(content, 1, {LI_O}, {LI_C})
    IN [k \in 1..Len(ms) |-> Slice(content, ms[k].open + 1, ms[k].close - 1)]

\* the non-blank strings of a bullet list
NonBlank(bullets) == SelectSeq(bullets, LAMBDA b : Strip(b) # <<>>)

\* the part of an entry before its first list: its title and header elements
BeforeFirstList(content) ==
    LET o == FindI(content, UlOpenTags, 1)
    IN IF o = 0 THEN content ELSE Slice(content, 1, o - 1)

\* the entry at the index of the last update, before and after the update
EntryBefore == Candidates[last.exp_index + 1]
EntryAfter  == AllEntries(SearchHtml(last.result.html))[last.exp_index + 1]

\* C27: after a bullet update at a valid index the selected entry holds
\* exactly one list, whose items are in order the non-blank strings handed
\* in, each as it was typed, in the same entry block, and the part of the
\* entry before the list (its title element) is unchanged.
C27_BulletUpdateResult ==
    (IsBulletUpdate /\ last.exp_index \in 0..(Len(Candidates) - 1)) =>
        /\ ~last.result.raised
        /\ Len(AllEntries(SearchHtml(last.result.html))) > last.exp_index
        /\ EntryAfter.type = EntryBefore.type
        /\ EntryAfter.start = EntryBefore.start
        /\ Cardinality({k \in 1..Len(EntryAfter.content) :
                           Lower(EntryAfter.content[k]) \in UlOpenTags}) = 1
        /\ ListItems(EntryAfter.content) = NonBlank(last.new_bullets)
        /\ BeforeFirstList(EntryAfter.content) = BeforeFirstList(EntryBefore.content)

\* the same for entries holding one list and bullets holding neither a
\* backslash nor markup
C27_ResultForOneListAndPlainText ==
    (/\ IsBulletUpdate /\ last.exp_index \in 0..(Len(Candidates) - 1)
     /\ Cardinality({k \in 1..Len(EntryBefore.content) :
                        Lower(EntryBefore.content[k]) \in UlOpenTags}) = 1
     /\ \A j \in 1..Len(last.new_bullets) :
           \A i \in 1..Len(last.new_bullets[j]) :
               last.new_bullets[j][i] \notin TagTokens \cup {BS})
        => C27_BulletUpdateResult

\* -------------------------------------------------------------------------
\* Claims about writing and reading back the summary (SpecEdit)
\* -------------------------------------------------------------------------
\* text without markup
MarkupFree(text) == \A k \in 1..Len(text) : text[k] \notin TagTokens

\* C28: in a document that an update pattern matches, a markup-free summary
\* that is written is read back as it was written, less its leading and
\* trailing whitespace, also when it holds a dollar sign or a backslash.
C28_SummaryRoundTrip ==
    (IsSummaryUpdate /\ MatchingUpdatePatterns # {} /\ MarkupFree(last.new_summary)) =>
        /\ ~last.result.raised
        /\ extract_summary_from_html(last.result.html) = Strip(last.new_summary)

\* the same for summaries without a dollar sign
C28_RoundTripWithoutDollar ==
    (\A k \in 1..Len(last.new_summary) : last.new_summary[k] # DOLLAR)
        => C28_SummaryRoundTrip

\* -------------------------------------------------------------------------
\* The templates: data_manager.py, "Templates".  templates_data is the dict
\* of templates.json: the list "templates" and "default_id".  Template ids
\* come from the same uuid4 as the application ids.  The html, the css and
\* the description of a template are stored beside its name and are not
\* carried in the model.
\* -------------------------------------------------------------------------
MaxTemplates == 4   \* template ids handed out before saving stops

TemplateNames == {<<"Classic">>, <<"Modern">>}

\* save_template
save_template(data, name, set_as_default, template_id, now) ==
    [templates  |-> Append(data.templates,
                           [id |-> template_id, name |-> name, created_at |-> now]),
     default_id |-> IF set_as_default \/ data.default_id = 0
                    THEN template_id ELSE data.default_id]

\* a delete that leaves default_id as it is
DeleteKeepingDefault(data, template_id) ==
    [templates  |-> SelectSeq(data.templates, LAMBDA t : t.id # template_id),
     default_id |-> data.default_id]

\* delete_template
delete_template(data, template_id) ==
    LET kept == SelectSeq(data.templates, LAMBDA t : t.id # template_id)
    IN [templates  |-> kept,
        default_id |-> IF data.default_id = template_id
                       THEN (IF kept # <<>> THEN kept[1].id ELSE 0)
                       ELSE data.default_id]

\* set_default_template
set_default_template(data, template_id) ==
    [templates |-> data.templates, default_id |-> template_id]

\* get_template: the first template with the id; NoneValue is None
NoneValue == [id |-> 0]
get_template(data, template_id) ==
    IF \E k \in 1..Len(data.templates) : data.templates[k].id = template_id
    THEN data.templates[CHOOSE k \in 1..Len(data.templates) :
                           /\ data.templates[k].id = template_id
                           /\ \A j \in 1..(k - 1) : data.templates[j].id # template_id]
    ELSE NoneValue

\* get_default_template
get_default_template(data) ==
    IF data.default_id # 0 THEN get_template(data, data.default_id) ELSE NoneValue

\* "Save Template" and the installation of a built-in template
SaveTemplate ==
    \E name \in TemplateNames, set_as_default \in BOOLEAN :
        /\ ids_issued < MaxTemplates
        /\ templates_data' = save_template(templates_data, name, set_as_default,
                                           ids_issued + 1, clock)
        /\ ids_issued' = ids_issued + 1
        /\ clock' = clock + 1
        /\ UNCHANGED <<applications, session_state, last_save,
                       editVars, renderVars, fillVars>>

\* "Delete" on the selected template; the id may be one deleted since the
\* page was drawn
DeleteTemplate ==
    \E template_id \in 1..ids_issued :
        /\ templates_data' = delete_template(templates_data, template_id)
        /\ UNCHANGED <<applications, session_state, ids_issued, clock, last_save,
                       editVars, renderVars, fillVars>>

\* "Set as Default" on a stored template
SetDefaultTemplate ==
    \E k \in 1..Len(templates_data.templates) :
        /\ templates_data' = set_default_template(templates_data,
                                                  templates_data.templates[k].id)
        /\ UNCHANGED <<applications, session_state, ids_issued, clock, last_save,
                       editVars, renderVars, fillVars>>

InitTemplates == AppsIdle /\ EditorIdle /\ RenderIdle /\ FillIdle

NextTemplates == SaveTemplate \/ DeleteTemplate \/ SetDefaultTemplate

SpecTemplates == InitTemplates /\ [][NextTemplates]_vars

StoredTemplateIds ==
    {templates_data.templates[k].id : k \in 1..Len(templates_data.templates)}

\* C29: after any sequence of save_template, delete_template and
\* set_default_template on a stored template, default_id is None exactly when
\* no template is stored and otherwise is the id of a stored template, and
\* get_default_template returns a template whenever one is stored.
C29_DefaultTemplateInvariant ==
    /\ templates_data.default_id = 0 <=> templates_data.templates = <<>>
    /\ templates_data.default_id # 0 => templates_data.default_id \in StoredTemplateIds
    /\ templates_data.templates # <<>> =>
          /\ get_default_template(templates_data) # NoneValue
          /\ get_default_template(templates_data).id = templates_data.default_id

\* C29 witness: templates were saved and all of them deleted again, the
\* default among them, and default_id is back to None.
C29_Witness ==
    /\ ids_issued >= 2
    /\ templates_data.templates = <<>>
    /\ templates_data.default_id = 0

\* -------------------------------------------------------------------------
\* Claims about saving an application (SpecApps)
\* -------------------------------------------------------------------------
IsApplicationSave == last_save.op = "save_application"

\* C30: whenever "Save Application" completes, the storage it leaves holds an
\* application that is not a draft and whose generated_html is the saved
\* document, whatever Generate, quick edits, saves, status updates and
\* deletions came before.
C30_SaveNeverLost ==
    IsApplicationSave =>
        \E k \in 1..Len(last_save.after) :
            /\ last_save.after[k].status # "draft"
            /\ last_save.after[k].generated_html = last_save.generated_html

\* the same for saves made while the application the session points at is
\* still stored, or while the session points at none
C30_SavedWhileDraftStored ==
    (last_save.existing_draft_id = 0
     \/ \E k \in 1..Len(last_save.before) :
           last_save.before[k].id = last_save.existing_draft_id)
        => C30_SaveNeverLost

====
